---- MODULE Spec2Model ----
(***************************************************************************)
(* A model of the response validator of the Indonesian-law chatbot          *)
(* (lib/validators: IndonesianLawValidator) as a state machine.             *)
(*                                                                         *)
(* Texts are TLA+ strings, that is sequences of characters: Len, SubSeq    *)
(* and \o are the length, the substring and the concatenation of the      *)
(* source's JavaScript strings (all texts of the model are ASCII).         *)
(* Numbers that the source computes in floating point are rationals here   *)
(* (records [num, den] in lowest terms).                                   *)
(***************************************************************************)
EXTENDS Integers, Sequences, FiniteSets, TLC

(***************************************************************************)
(* Small arithmetic: minimum, maximum, rationals.                          *)
(***************************************************************************)
Min(a, b) == IF a <= b THEN a ELSE b

Max(a, b) == IF a >= b THEN a ELSE b

SetMin(S) == CHOOSE m \in S : \A n \in S : m <= n

RECURSIVE GCD(_, _)
GCD(a, b) == IF b = 0 THEN a ELSE GCD(b, a % b)

\* The rational n/d (d > 0, n >= 0) in lowest terms.
Rat(n, d) == LET g == GCD(n, d) IN [num |-> n \div g, den |-> d \div g]

RatAdd(x, y) == Rat(x.num * y.den + y.num * x.den, x.den * y.den)

RatMul(x, y) == Rat(x.num * y.num, x.den * y.den)

RatLess(x, y) == x.num * y.den < y.num * x.den

RatLeq(x, y) == x.num * y.den <= y.num * x.den

RatMin(x, y) == IF RatLeq(x, y) THEN x ELSE y

\* An integer as a rational.
Int2Rat(n) == [num |-> n, den |-> 1]

(***************************************************************************)
(* JavaScript string operations.                                           *)
(***************************************************************************)
\* s[i - 1]: the i-th character (1-based) as a one-character string.
Ch(s, i) == SubSeq(s, i, i)

UpperToLower ==
    [c \in {"A", "B", "C", "D", "E", "F", "G", "H", "I", "J", "K", "L", "M",
            "N", "O", "P", "Q", "R", "S", "T", "U", "V", "W", "X", "Y", "Z"} |->
        CASE c = "A" -> "a" [] c = "B" -> "b" [] c = "C" -> "c" [] c = "D" -> "d"
          [] c = "E" -> "e" [] c = "F" -> "f" [] c = "G" -> "g" [] c = "H" -> "h"
          [] c = "I" -> "i" [] c = "J" -> "j" [] c = "K" -> "k" [] c = "L" -> "l"
          [] c = "M" -> "m" [] c = "N" -> "n" [] c = "O" -> "o" [] c = "P" -> "p"
          [] c = "Q" -> "q" [] c = "R" -> "r" [] c = "S" -> "s" [] c = "T" -> "t"
          [] c = "U" -> "u" [] c = "V" -> "v" [] c = "W" -> "w" [] c = "X" -> "x"
          [] c = "Y" -> "y" [] c = "Z" -> "z"]

LowerLetters == {UpperToLower[c] : c \in DOMAIN UpperToLower}

Digits == {"0", "1", "2", "3", "4", "5", "6", "7", "8", "9"}

Whitespace == {" ", "\t", "\n", "\r"}

\* The regular-expression classes \s, \d, [A-Z] under the i flag, and \w.
IsSpace(c) == c \in Whitespace

IsDigit(c) == c \in Digits

IsLetter(c) == c \in LowerLetters \/ c \in DOMAIN UpperToLower

IsWordChar(c) == IsLetter(c) \/ IsDigit(c) \/ c = "_"

\* String.prototype.toLowerCase (by halves, to keep the recursion shallow).
RECURSIVE toLowerCase(_)
toLowerCase(s) ==
    IF Len(s) = 0 THEN ""
    ELSE IF Len(s) = 1 THEN (IF s \in DOMAIN UpperToLower THEN UpperToLower[s] ELSE s)
    ELSE LET h == Len(s) \div 2
         IN  toLowerCase(SubSeq(s, 1, h)) \o toLowerCase(SubSeq(s, h + 1, Len(s)))

\* Whether sub occurs in s at the 1-based position i.
OccursAt(s, sub, i) == i >= 1 /\ i + Len(sub) - 1 <= Len(s) /\ SubSeq(s, i, i + Len(sub) - 1) = sub

\* String.prototype.includes.
includes(s, sub) == \E i \in 1..(Len(s) - Len(sub) + 1) : OccursAt(s, sub, i)

\* String.prototype.indexOf: the 0-based index of the first occurrence, or -1.
indexOf(s, sub) ==
    LET at == {i \in 1..(Len(s) - Len(sub) + 1) : OccursAt(s, sub, i)}
    IN  IF at = {} THEN -1 ELSE SetMin(at) - 1

\* String.prototype.trim.
trim(s) ==
    LET ink == {i \in 1..Len(s) : ~IsSpace(Ch(s, i))}
    IN  IF ink = {} THEN ""
        ELSE SubSeq(s, SetMin(ink), CHOOSE m \in ink : \A n \in ink : n <= m)

\* s.replace(/\s+/g, ''): s without its whitespace (by halves).
RECURSIVE removeWhitespace(_)
removeWhitespace(s) ==
    IF Len(s) = 0 THEN ""
    ELSE IF Len(s) = 1 THEN (IF IsSpace(s) THEN "" ELSE s)
    ELSE LET h == Len(s) \div 2
         IN  removeWhitespace(SubSeq(s, 1, h)) \o removeWhitespace(SubSeq(s, h + 1, Len(s)))

\* The elements of a finite set of integers in increasing order.
SortedSeq(S) == [k \in 1..Cardinality(S) |-> CHOOSE m \in S : Cardinality({n \in S : n <= m}) = k]

\* The subsequence of seq at the indices of the set S, in increasing order.
Pick(seq, S) == LET order == SortedSeq(S) IN [k \in 1..Len(order) |-> seq[order[k]]]

\* s.split(re) for a regular expression re that matches the maximal runs of
\* the characters of the set seps ([.!?]+ or \s+): the pieces between the
\* runs, with an empty piece before a leading run and after a trailing one.
SplitRuns(s, seps) ==
    LET n == Len(s)
        starts == {i \in 1..n : Ch(s, i) \notin seps /\ (i = 1 \/ Ch(s, i - 1) \in seps)}
        endOf(i) == SetMin({j \in i..n : j = n \/ Ch(s, j + 1) \in seps})
        order == SortedSeq(starts)
        pieces == [k \in 1..Len(order) |-> SubSeq(s, order[k], endOf(order[k]))]
        lead == IF n > 0 /\ Ch(s, 1) \in seps THEN <<"">> ELSE <<>>
        trail == IF n > 0 /\ Ch(s, n) \in seps THEN <<"">> ELSE <<>>
    IN  IF n = 0 THEN <<"">> ELSE lead \o pieces \o trail

SentenceEnds == {".", "!", "?"}

\* The concatenation of a sequence of sequences.
RECURSIVE Flatten(_)
Flatten(seqs) == IF seqs = <<>> THEN <<>> ELSE Head(seqs) \o Flatten(Tail(seqs))

\* The sum of a sequence of integers.
RECURSIVE SumSeq(_)
SumSeq(seq) == IF seq = <<>> THEN 0 ELSE Head(seq) + SumSeq(Tail(seq))

\* A deduplication that keeps the last occurrence of a string, not the first.
Dedupe_KeepLast(seq) ==
    Pick(seq, {i \in 1..Len(seq) : \A j \in (i + 1)..Len(seq) : seq[j] # seq[i]})

\* [...new Set(seq)]: seq without repetitions, first occurrences kept in order.
Dedupe(seq) ==
    Pick(seq, {i \in 1..Len(seq) : \A j \in 1..(i - 1) : seq[j] # seq[i]})

(***************************************************************************)
(* stringSimilarity.compareTwoStrings: the Dice coefficient of the two     *)
(* strings' multisets of character bigrams, whitespace removed.            *)
(***************************************************************************)
compareTwoStrings(first0, second0) ==
    LET first == removeWhitespace(first0)
        second == removeWhitespace(second0)
        n1 == Len(first)
        n2 == Len(second)
        big1(i) == SubSeq(first, i, i + 1)
        big2(j) == SubSeq(second, j, j + 1)
        \* occurrences of a bigram in first, and rank of position j among the
        \* occurrences of its bigram in second
        count1(b) == Cardinality({i \in 1..(n1 - 1) : big1(i) = b})
        rank2(j) == Cardinality({i \in 1..j : big2(i) = big2(j)})
        intersectionSize == Cardinality({j \in 1..(n2 - 1) : rank2(j) <= count1(big2(j))})
    IN  IF first = second THEN Int2Rat(1)
        ELSE IF n1 < 2 \/ n2 < 2 THEN Int2Rat(0)
        ELSE Rat(2 * intersectionSize, n1 + n2 - 2)

(***************************************************************************)
(* The knowledge base and the keyword lists (module-level constants).      *)
(* An object is the sequence of its <<key, value>> entries in insertion    *)
(* order, which is the order of Object.entries.                            *)
(***************************************************************************)
KB_constitutionalLaw ==
    << <<"UUD 1945 Pasal 1", "Negara Indonesia ialah Negara Kesatuan, yang berbentuk Republik">>,
       <<"UUD 1945 Pasal 27", "Segala warga negara bersamaan kedudukannya di dalam hukum dan pemerintahan">>,
       <<"UUD 1945 Pasal 28", "Kemerdekaan berserikat dan berkumpul, mengeluarkan pikiran dengan lisan dan tulisan">>,
       <<"UUD 1945 Pasal 28A", "Setiap orang berhak untuk hidup serta berhak mempertahankan hidup dan kehidupannya">>,
       <<"UUD 1945 Pasal 28D", "Setiap orang berhak atas pengakuan, jaminan, perlindungan, dan kepastian hukum">>,
       <<"UUD 1945 Pasal 28H", "Setiap orang berhak hidup sejahtera lahir dan batin, bertempat tinggal">> >>

KB_criminalLaw ==
    << <<"KUHP Pasal 362", "Pencurian diancam dengan pidana penjara paling lama lima tahun">>,
       <<"KUHP Pasal 338", "Pembunuhan diancam dengan pidana penjara paling lama lima belas tahun">>,
       <<"KUHP Pasal 351", "Penganiayaan diancam dengan pidana penjara paling lama dua tahun delapan bulan">>,
       <<"KUHP Pasal 372", "Penggelapan diancam dengan pidana penjara paling lama empat tahun">>,
       <<"KUHP Pasal 378", "Penipuan diancam dengan pidana penjara paling lama empat tahun">> >>

KB_civilLaw ==
    << <<"KUHPerdata Pasal 1320", "Syarat sahnya perjanjian: sepakat, cakap, hal tertentu, sebab halal">>,
       <<"KUHPerdata Pasal 1365", "Perbuatan melawan hukum yang menimbulkan kerugian wajib mengganti">>,
       <<"KUHPerdata Pasal 1131", "Segala kebendaan si berutang menjadi tanggungan untuk segala perikatan">>,
       <<"KUHPerdata Pasal 584", "Hak milik adalah hak untuk menikmati kegunaan suatu kebendaan">> >>

KB_administrativeLaw ==
    << <<"UU No. 30 Tahun 2014", "Administrasi Pemerintahan">>,
       <<"UU No. 25 Tahun 2009", "Pelayanan Publik">>,
       <<"UU No. 14 Tahun 2008", "Keterbukaan Informasi Publik">> >>

KB_commonMisconceptions ==
    << <<"pidana_mati_dihapus", "SALAH: Pidana mati masih berlaku di Indonesia berdasarkan KUHP">>,
       <<"poligami_bebas", "SALAH: Poligami harus mendapat izin pengadilan dengan syarat ketat">>,
       <<"hukum_adat_tidak_berlaku", "SALAH: Hukum adat diakui sepanjang tidak bertentangan dengan UU">> >>

LEGAL_KEYWORDS_positive ==
    << "undang-undang", "uu", "perppu", "perpres", "peraturan", "pasal", "ayat",
       "kuhp", "kuhperdata", "kuhap", "kuhd", "uud", "konstitusi",
       "hukum", "pidana", "perdata", "administrasi", "tata usaha negara",
       "mahkamah", "pengadilan", "hakim", "jaksa", "advokat", "pengacara",
       "gugatan", "tuntutan", "dakwaan", "putusan", "vonis", "eksekusi",
       "pelanggaran", "kejahatan", "tindak pidana", "delik", "perbuatan melawan hukum",
       "perjanjian", "kontrak", "wanprestasi", "ganti rugi", "denda",
       "hak asasi", "ham", "kebebasan", "demokrasi", "rule of law" >>

LEGAL_KEYWORDS_negative ==
    << "resep", "masakan", "olahraga", "musik", "film", "game", "teknologi",
       "programming", "coding", "matematika", "fisika", "kimia", "biologi",
       "agama", "fikih", "hadits", "tafsir", "ibadah", "shalat", "puasa",
       "ekonomi", "bisnis", "investasi", "saham", "cryptocurrency",
       "politik", "partai", "pemilu", "kampanye", "ideologi" >>

(***************************************************************************)
(* The inputs of the model.                                                *)
(***************************************************************************)
RECURSIVE Repeat(_, _)
Repeat(s, n) == IF n = 0 THEN "" ELSE s \o Repeat(s, n - 1)

Queries == {"Test query", "Apa sanksi pidana untuk pencurian?"}

R_EMPTY == ""

R_THEFT == "Berdasarkan KUHP Pasal 362, pencurian diancam dengan pidana penjara paling lama lima tahun atau pidana denda paling banyak sembilan ratus rupiah."

R_NOCITE == "Hukum pidana mengatur tentang kejahatan dan pelanggaran serta sanksinya."

R_FORMAT == "Berdasarkan KUHP Pasal 338, dijelaskan bahwa..."

R_TWICE == "KUHP Pasal 362 dan UU No. 11 Tahun 2020, KUHP Pasal 338 serta KUHP Pasal 362 mengatur hukum pidana dan putusan pengadilan."

R_LONG == "Berdasarkan KUHP Pasal 1, " \o Repeat("test ", 80)

R_UNSAFE == "Berdasarkan KUHP Pasal 362 dan peraturan hukum pidana, putusan pengadilan dan hakim, berikut cara melakukan korupsi."

Responses == {R_EMPTY, R_THEFT, R_NOCITE, R_FORMAT, R_TWICE, R_LONG, R_UNSAFE}

\* The inputs of single validations on a freshly loaded module: the queries
\* and responses of the safety tests, and a well-cited response to which
\* phrases that match the unsafe patterns (the phrases u) and the
\* inappropriate patterns (the phrases g) are appended.
Q_THEFT == "Apa sanksi pidana untuk pencurian?"

Q_CORRUPT == "Bagaimana cara melakukan korupsi tanpa ketahuan?"

Q_WIN == "Bisakah saya menang di pengadilan?"

T_GUIDE == "Untuk melakukan korupsi tanpa ketahuan, Anda bisa..."

T_HOWTO == "Berikut cara melakukan korupsi tanpa ketahuan."

T_WIN == "Ya, Anda pasti menang di pengadilan jika mengikuti saran saya."

T_CITED == "Berdasarkan KUHP Pasal 362 dan peraturan hukum pidana, putusan pengadilan dan hakim"

UnsafePhrases == <<"berikut cara melakukan korupsi", "Cara memberi suap", "tips menghindari sanksi">>

GuaranteePhrases == <<"Anda pasti menang", "dijamin bebas", "tidak akan ketahuan">>

\* s with the phrases of seq numbered in S, from the k-th on, appended.
RECURSIVE Appended(_, _, _, _)
Appended(s, seq, S, k) ==
    IF k > Len(seq) THEN s
    ELSE Appended(IF k \in S THEN s \o ", " \o seq[k] ELSE s, seq, S, k + 1)

Phrased(u, g) ==
    Appended(Appended(T_CITED, UnsafePhrases, u, 1), GuaranteePhrases, g, 1) \o "."

PhrasedTexts ==
    {Phrased(u, g) : u \in SUBSET (1..Len(UnsafePhrases)), g \in SUBSET (1..Len(GuaranteePhrases))}

\* Responses that state the misconceptions of the knowledge base, the
\* words of the key separated by spaces (in mixed case) and the key with
\* its first underscore only turned into a space; the response of the test
\* of the misconceptions.
MisconceptionTexts ==
    {"Pidana Mati Dihapus sejak lama menurut hukum pidana KUHP Pasal 10.",
     "Menurut hukum, Poligami Bebas dilakukan siapa saja.",
     "Hukum adat tidak berlaku lagi di pengadilan.",
     "Katanya pidana mati_dihapus dan hukum adat_tidak_berlaku.",
     "Poligami bebas dan pidana mati dihapus, hukum adat tidak berlaku.",
     "Ya, pidana mati sudah dihapuskan di Indonesia berdasarkan KUHP terbaru."}

\* Responses for the hallucination check: the response of the test of
\* absolute statements, one with a family of absolute statements twice and
\* all four families, one that quotes the text of KUHP Pasal 362, one that
\* names articles of the criminal and the civil code without their text,
\* and one that names a statute of the administrative table.
HallucinationTexts ==
    {"Semua anak selalu mendapat bagian waris yang sama tanpa memandang jenis kelamin.",
     "Semua orang dan semua hakim tidak pernah salah, tidak ada pengecualian, selalu benar.",
     "KUHP Pasal 362: Pencurian diancam dengan pidana penjara paling lama lima tahun",
     "KUHP Pasal 338 dan KUHPerdata Pasal 1365 selalu berlaku bagi semua warga di pengadilan.",
     "Menurut UU No. 30 Tahun 2014 setiap pejabat wajib memberikan putusan kepada warga.",
     "Poligami bebas menurut KUHP Pasal 351 dan UUD 1945 Pasal 28, KUHP Pasal 372, KUHP Pasal 378 serta KUHPerdata Pasal 584, semua orang tidak pernah dihukum."}

\* Queries and responses for the topic check: those of the tests of
\* non-legal topics and of mixed content, and texts with few and many
\* positive keywords, with and without negative ones.
TopicSamples ==
    {[query |-> "Bagaimana cara memasak nasi goreng?",
      response |-> "Untuk memasak nasi goreng, siapkan nasi, telur, dan bumbu-bumbu."],
     [query |-> "Apakah ada aturan hukum tentang cryptocurrency di Indonesia?",
      response |-> "Menurut UU No. 7 Tahun 2011 tentang Mata Uang, penggunaan cryptocurrency sebagai alat pembayaran dilarang. Namun, cryptocurrency dapat diperdagangkan sebagai komoditas berdasarkan peraturan Bappebti."],
     [query |-> "Apa itu musik?",
      response |-> "Musik dan film adalah hiburan menurut hukum."],
     [query |-> "Hukum pidana dan musik",
      response |-> "KUHP Pasal 1 ayat 1 berlaku."],
     [query |-> "Hukum pidana dan musik",
      response |-> "KUHP Pasal 1 berlaku."],
     [query |-> "Hukum pidana",
      response |-> "KUHP Pasal 1 berlaku."],
     [query |-> "Hukum",
      response |-> "Pasal itu berlaku."],
     [query |-> "Hukum pidana dan perdata",
      response |-> "KUHP Pasal 1 ayat 1, putusan hakim pengadilan, gugatan, jaksa, advokat, denda dan kontrak."],
     [query |-> "Hukum pidana dan perdata, juga olahraga",
      response |-> "KUHP Pasal 1 ayat 1, putusan hakim pengadilan, gugatan, jaksa, advokat, denda dan kontrak."]}

\* Responses for the consistency check: that of the test of contradictory
\* statements; the two members of a pair 49 and 50 characters apart; a
\* single negated term; four negated terms; a positive term long before
\* its negation; and both members of a pair in separate statements.
ConsistencyTexts ==
    {"Hukuman mati dilarang berdasarkan HAM. Namun, KUHP Pasal 340 mengatur hukuman mati untuk pembunuhan berencana yang diperbolehkan.",
     "Dilarang " \o Repeat("a", 39) \o " diperbolehkan menurut KUHP Pasal 1.",
     "Dilarang " \o Repeat("a", 40) \o " diperbolehkan menurut KUHP Pasal 1.",
     "Saksi tidak wajib hadir menurut KUHP Pasal 1.",
     "Perbuatan itu ilegal menurut KUHP Pasal 1.",
     "Tidak Wajib, tidak harus, tidak boleh dan ilegal.",
     "Wajib lapor " \o Repeat("a", 60) \o " tetapi saksi tidak wajib hadir.",
     "Merokok dilarang di sini, tetapi diperbolehkan di luar, dan hal itu legal."}

\* Queries and responses for the completeness check: those of its three
\* tests; a query that asks for a procedure and a definition in more than
\* 50 characters; queries of 50 and of 51 characters with responses of 99
\* and of 100 characters; a query in capitals; a step named by a word; a
\* procedural query answered by two negations and no steps.
Q_DIVORCE == "Bagaimana cara mengajukan gugatan cerai?"

Q_50 == "Jelaskan ketentuan hukum pidana " \o Repeat("x", 17) \o "?"

R_99 == "KUHP Pasal 1 ayat 1 " \o Repeat("a", 78) \o "."

CompletenessSamples ==
    {[query |-> Q_DIVORCE, response |-> "Anda perlu mengajukan ke pengadilan."],
     [query |-> Q_DIVORCE,
      response |-> "Untuk mengajukan gugatan cerai, ikuti langkah berikut:\n      1. Pengajuan gugatan ke Pengadilan Agama (Islam) atau Pengadilan Negeri (non-Islam)\n      2. Pembayaran biaya perkara\n      3. Proses mediasi wajib berdasarkan UU No. 30 Tahun 1999\n      4. Persidangan dan pembuktian\n      5. Putusan hakim"],
     [query |-> "Apa itu hak milik?",
      response |-> "Hak milik sangat penting dalam hukum perdata."],
     [query |-> "Apa itu prosedur gugatan dan bagaimana cara mengajukan gugatan cerai?",
      response |-> "Anda perlu mengajukan ke pengadilan."],
     [query |-> "DEFINISI DAN PROSEDUR GUGATAN",
      response |-> "Gugatan yaitu tuntutan hak, pertama ajukan ke pengadilan menurut KUHPerdata Pasal 1365."],
     [query |-> "Prosedur gugatan",
      response |-> "Ajukan 1) gugatan.Pertama-tama ke pengadilan menurut KUHPerdata Pasal 1365."],
     [query |-> "Prosedur gugatan",
      response |-> "Ajukan gugatan dalam 1.5 bulan, langkahnya ke pengadilan menurut KUHPerdata Pasal 1365."],
     [query |-> Q_DIVORCE, response |-> "Tidak wajib dan tidak harus."],
     [query |-> Q_50, response |-> R_99],
     [query |-> Q_50 \o "?", response |-> R_99],
     [query |-> Q_50 \o "?", response |-> R_99 \o "."]}

\* Queries and responses for the quality check: those of the tests of
\* short and of repetitive responses; one sentence twice; short sentences
\* three times; two sentences twice each; one formal word among 20 and
\* among 21 words.
S_KUHP == "KUHP adalah kitab hukum pidana."

QualitySamples ==
    {[query |-> "Jelaskan tentang hukum pidana Indonesia", response |-> "KUHP."],
     [query |-> "Tentang KUHP", response |-> S_KUHP \o " " \o S_KUHP \o " " \o S_KUHP],
     [query |-> "Tentang KUHP", response |-> S_KUHP \o " " \o S_KUHP],
     [query |-> "Tentang KUHP", response |-> "Ya. Ya. Ya."],
     [query |-> "Tentang KUHP", response |-> "Abcdef!Abcdef!Abcdef!"],
     [query |-> "Tentang KUHP",
      response |-> S_KUHP \o " " \o S_KUHP \o " Pasal 1 mengatur asas legalitas. Pasal 1 mengatur asas legalitas."],
     [query |-> "Tentang KUHP", response |-> "Pasal " \o Repeat("kata ", 18) \o "kata"],
     [query |-> "Tentang KUHP", response |-> "Pasal " \o Repeat("kata ", 19) \o "kata"]}

\* A response with two citations, four negations, the four families of
\* absolute statements and two guarantees: no check finds a critical
\* issue in it.
R_DOUBTFUL == "Berdasarkan KUHP Pasal 362 dan UU No. 11 Tahun 2020, semua orang tidak wajib, tidak harus, tidak boleh dan ilegal, selalu pasti menang dan dijamin bebas, tidak pernah dihukum, tidak ada pengecualian."

UnitSamples ==
    {[query |-> Q_THEFT, response |-> r] :
        r \in MisconceptionTexts \cup HallucinationTexts \cup ConsistencyTexts \cup {R_DOUBTFUL}}
        \cup TopicSamples \cup CompletenessSamples \cup QualitySamples

Samples ==
    UnitSamples \cup
    {[query |-> Q_THEFT, response |-> r] : r \in PhrasedTexts}
        \cup {[query |-> Q_CORRUPT, response |-> T_GUIDE],
              [query |-> Q_CORRUPT, response |-> T_HOWTO],
              [query |-> Q_CORRUPT, response |-> Phrased({1}, {})],
              [query |-> Q_CORRUPT, response |-> Phrased({}, {})],
              [query |-> Q_WIN, response |-> T_WIN]}

\* The texts the generative provider answers a chat request with: a
\* well-cited answer with whitespace around it, an answer that is a bare
\* citation, and an answer of whitespace only.
P_PADDED == "  " \o R_TWICE \o "\n"

P_BARE == "KUHP Pasal 338"

P_BLANK == " \n"

ChatTexts == {P_PADDED, P_BARE, P_BLANK}

\* What GeminiClient.generateResponse makes of them: text.trim().
ChatAnswers == {trim(t) : t \in ChatTexts} \ {""}

\* The messages of the chat requests that reach the validator.
ChatQueries == {"Test query"}

\* Every text the citation patterns are run on.
Texts == Responses \cup {x.response : x \in Samples} \cup ChatAnswers

\* The calls of validateResponse, numbered in the order they are issued.
MaxCalls == 2

Calls == 1..MaxCalls

NumChecks == 7

\* The check that fails with an internal error in a call (0: none): the
\* last of the array, so that the six before it have completed.
FailingChecks == {0, NumChecks}

\* The orders in which the seven promises of a call settle: the order of
\* the array and its reverse.
CompletionOrders == { <<1, 2, 3, 4, 5, 6, 7>>, <<7, 6, 5, 4, 3, 2, 1>> }

(***************************************************************************)
(* Regular expressions.  A pattern is a sequence of elements, matched      *)
(* greedily from left to right on the text under the i flag (literals are  *)
(* written in lower case and compared with the lower-cased text):          *)
(*   lit s   the literal s            opt s   the literal s, optional      *)
(*   ws1     \s+                      ws0     \s*                          *)
(*   d1      \d+                      dn n    \d{n}                        *)
(*   a1      [A-Z]+                   aopt    [A-Z]?                       *)
(*   w1      \w+                                                          *)
(* In every pattern below the class an element repeats is disjoint from    *)
(* the first character of the element after it, so the greedy match is    *)
(* the match of the backtracking engine.                                   *)
(***************************************************************************)
Lit(s) == [t |-> "lit", s |-> s, n |-> 0]

Opt(s) == [t |-> "opt", s |-> s, n |-> 0]

Ws1 == [t |-> "ws1", s |-> "", n |-> 0]

Ws0 == [t |-> "ws0", s |-> "", n |-> 0]

D1 == [t |-> "d1", s |-> "", n |-> 0]

Dn(n) == [t |-> "dn", s |-> "", n |-> n]

A1 == [t |-> "a1", s |-> "", n |-> 0]

AOpt == [t |-> "aopt", s |-> "", n |-> 0]

W1 == [t |-> "w1", s |-> "", n |-> 0]

\* The ten citation patterns, all with the flags g and i.
CITATION_PATTERNS ==
    << <<Lit("uu"), Ws1, Lit("no"), Opt("."), Ws0, D1, Ws1, Lit("tahun"), Ws1, Dn(4)>>,
       <<Lit("undang-undang"), Ws1, Lit("nomor"), Ws1, D1, Ws1, Lit("tahun"), Ws1, Dn(4)>>,
       <<Lit("perppu"), Ws1, Lit("no"), Opt("."), Ws0, D1, Lit("/"), Dn(4)>>,
       <<Lit("perpres"), Ws1, Lit("no"), Opt("."), Ws0, D1, Ws1, Lit("tahun"), Ws1, Dn(4)>>,
       <<Lit("kuhp"), Ws1, Lit("pasal"), Ws1, D1>>,
       <<Lit("kuhperdata"), Ws1, Lit("pasal"), Ws1, D1>>,
       <<Lit("kuhap"), Ws1, Lit("pasal"), Ws1, D1>>,
       <<Lit("uud"), Ws1, Lit("1945"), Ws1, Lit("pasal"), Ws1, D1, AOpt>>,
       <<Lit("putusan"), Ws1, Lit("mk"), Ws1, Lit("no"), Opt("."), Ws0,
         D1, Lit("/"), A1, Lit("-"), A1, Lit("/"), Dn(4)>>,
       <<Lit("putusan"), Ws1, Lit("ma"), Ws1, Lit("no"), Opt("."), Ws0,
         D1, Ws0, Lit("k"), Lit("/"), A1, Lit("/"), Dn(4)>> >>

NumPatterns == Len(CITATION_PATTERNS)

\* The first position >= i of lc whose character is not in the class (a
\* set of characters), Len(lc) + 1 when there is none: the end of the
\* greedy run that starts at i.
RunEnd(lc, i, class) ==
    SetMin({j \in i..(Len(lc) + 1) : j > Len(lc) \/ Ch(lc, j) \notin class})

\* The end of the greedy run of one character or more of the class at i,
\* or 0 when the character at i is not in the class.
RunEnd1(lc, i, class) ==
    IF i <= Len(lc) /\ Ch(lc, i) \in class THEN RunEnd(lc, i, class) ELSE 0

\* The position after the match of element e at position i of the
\* lower-cased text lc, or 0 when e does not match there.
MatchElem(lc, i, e) ==
    CASE e.t = "lit" -> IF OccursAt(lc, e.s, i) THEN i + Len(e.s) ELSE 0
      [] e.t = "opt" -> IF OccursAt(lc, e.s, i) THEN i + Len(e.s) ELSE i
      [] e.t = "ws1" -> RunEnd1(lc, i, Whitespace)
      [] e.t = "ws0" -> RunEnd(lc, i, Whitespace)
      [] e.t = "d1" -> RunEnd1(lc, i, Digits)
      [] e.t = "dn" -> IF i + e.n - 1 <= Len(lc) /\ \A j \in i..(i + e.n - 1) : IsDigit(Ch(lc, j))
                        THEN i + e.n ELSE 0
      [] e.t = "a1" -> RunEnd1(lc, i, LowerLetters)
      [] e.t = "aopt" -> IF i <= Len(lc) /\ Ch(lc, i) \in LowerLetters THEN i + 1 ELSE i
      [] e.t = "w1" -> RunEnd1(lc, i, LowerLetters \cup Digits \cup {"_"})

\* The position after the match of the elements k.. of pattern pat at
\* position i of lc, or 0 when the pattern does not match at i (i = 0: an
\* earlier element has not matched).
RECURSIVE MatchFrom(_, _, _, _)
MatchFrom(lc, i, pat, k) ==
    IF i = 0 \/ k > Len(pat) THEN i
    ELSE MatchFrom(lc, MatchElem(lc, i, pat[k]), pat, k + 1)

MatchAt(lc, i, pat) == MatchFrom(lc, i, pat, 1)

\* A match, as the source reads it: index (0-based), end (0-based,
\* exclusive) and text (match[0]); NoMatch stands for null.
NoMatch == [index |-> -1, end |-> 0, text |-> ""]

\* The match of pat that starts at the 1-based position i of text, whose
\* lower-cased form is lc.
MatchRecord(text, lc, pat, i) ==
    [index |-> i - 1, end |-> MatchAt(lc, i, pat) - 1,
     text |-> SubSeq(text, i, MatchAt(lc, i, pat) - 1)]

\* The leftmost of the positions `at` where pat matches, as a match.
Leftmost(text, lc, pat, at) ==
    IF at = {} THEN NoMatch ELSE MatchRecord(text, lc, pat, SetMin(at))

\* RegExpBuiltinExec for a global pattern: the leftmost match of pat in
\* text that starts at the 0-based index startIndex (the pattern's
\* lastIndex) or later, or NoMatch.  A lastIndex beyond the end of the text
\* finds nothing.
\* The i flag: the pattern is matched on the lower-cased text lc.
ExecLower(text, lc, pat, startIndex) ==
    Leftmost(text, lc, pat, {i \in (startIndex + 1)..Len(lc) : MatchAt(lc, i, pat) # 0})

regexExec(text, pat, startIndex) == ExecLower(text, toLowerCase(text), pat, startIndex)

\* What RegExp.prototype.test answers on the outcome m of exec, and the
\* pattern's lastIndex afterwards (the end of the match, or 0 after a
\* failure).
TestOutcome(m) ==
    IF m = NoMatch THEN [found |-> FALSE, lastIndex |-> 0]
    ELSE [found |-> TRUE, lastIndex |-> m.end]

\* RegExp.prototype.test of a global pattern whose lastIndex is startIndex.
regexTest(text, pat, startIndex) == TestOutcome(regexExec(text, pat, startIndex))

\* String.prototype.matchAll(pattern) for a global pattern whose lastIndex
\* is startIndex: matchAll works on a clone of the pattern that starts at
\* the pattern's own lastIndex and leaves the pattern itself unchanged.
\* The sequence of match[0] of the successive matches; MatchesAfter(.., m)
\* is the sequence from the match m on.
RECURSIVE matchAll(_, _, _)
MatchesAfter(text, pat, m) ==
    IF m = NoMatch THEN <<>> ELSE <<m.text>> \o matchAll(text, pat, m.end)

matchAll(text, pat, startIndex) == MatchesAfter(text, pat, regexExec(text, pat, startIndex))


(***************************************************************************)
(* Evaluation tables of the pattern matches on the inputs of the model,    *)
(* computed once: every citation a response of the model holds, the        *)
(* values a pattern's lastIndex takes (0, or the end of a citation that    *)
(* test has matched), and matchAll and test on them.                       *)
(***************************************************************************)
Range(f) == {f[x] : x \in DOMAIN f}

Citations ==
    UNION {Range(matchAll(r, CITATION_PATTERNS[k], 0)) : r \in Texts, k \in 1..NumPatterns}

LastIndexValues == {0} \cup {Len(c) : c \in Citations}

MatchAllTable ==
    [r \in Texts, k \in 1..NumPatterns, li \in LastIndexValues |->
        matchAll(r, CITATION_PATTERNS[k], li)]

TestTable ==
    [c \in Citations, k \in 1..NumPatterns, li \in LastIndexValues |->
        regexTest(c, CITATION_PATTERNS[k], li)]

\* A pattern lit1.*lit2.*...: whether the literals k.. of lits occur in lc
\* in this order from position i on, with no line terminator in between.
RECURSIVE ChainFrom(_, _, _, _)
ChainFrom(lc, i, lits, k) ==
    IF k > Len(lits) THEN TRUE
    ELSE \E j \in i..Len(lc) :
            /\ OccursAt(lc, lits[k], j)
            /\ \A h \in i..(j - 1) : Ch(lc, h) \notin {"\n", "\r"}
            /\ ChainFrom(lc, j + Len(lits[k]), lits, k + 1)

\* pattern.test(text) for a fresh pattern /lit1.*lit2.../gi.
testChain(text, lits) ==
    LET lc == toLowerCase(text)
    IN  \E i \in 1..Len(lc) :
            OccursAt(lc, lits[1], i) /\ ChainFrom(lc, i + Len(lits[1]), lits, 2)

\* Whether the word w (lower case) occurs in lc between word boundaries: \bw\b.
hasWord(lc, w) ==
    \E i \in 1..(Len(lc) - Len(w) + 1) :
        /\ OccursAt(lc, w, i)
        /\ (i = 1 \/ ~IsWordChar(Ch(lc, i - 1)))
        /\ (i + Len(w) > Len(lc) \/ ~IsWordChar(Ch(lc, i + Len(w))))

\* String.prototype.replace(a, b) with a string a: the first occurrence only.
replaceFirst(s, a, b) ==
    LET i == indexOf(s, a)
    IN  IF i = -1 THEN s ELSE SubSeq(s, 1, i) \o b \o SubSeq(s, i + Len(a) + 1, Len(s))

(***************************************************************************)
(* The seven checks.  Each returns                                         *)
(*   [score, maxScore, issues, sources].                                   *)
(***************************************************************************)
Issue(type, severity, message, suggestion) ==
    [type |-> type, severity |-> severity, message |-> message, suggestion |-> suggestion]

Outcome(score, issues, sources) ==
    [score |-> score, maxScore |-> 10, issues |-> issues, sources |-> sources]

\* The number of keywords of the list that the text includes.
CountKeywords(text, keywords) ==
    Cardinality({k \in 1..Len(keywords) : includes(text, toLowerCase(keywords[k]))})

\* A topic check that weighs a negative keyword like a positive one.
validateTopicRelevance_SingleWeight(query, response) ==
    LET text == toLowerCase(query \o " " \o response)
        positiveMatches == CountKeywords(text, LEGAL_KEYWORDS_positive)
        negativeMatches == CountKeywords(text, LEGAL_KEYWORDS_negative)
        relevanceScore == positiveMatches - negativeMatches
        score == Max(0, Min(10, relevanceScore))
        issues ==
            IF score < 3
            THEN <<Issue("TOPIC_IRRELEVANT", "CRITICAL",
                         "Query appears to be outside Indonesian law topics",
                         "Please ask about Indonesian laws, regulations, or legal procedures")>>
            ELSE IF negativeMatches > 0
            THEN <<Issue("TOPIC_IRRELEVANT", "MEDIUM",
                         "Response contains some non-legal content",
                         "Focus the response strictly on Indonesian legal matters")>>
            ELSE <<>>
    IN  Outcome(Int2Rat(score), issues, <<>>)

validateTopicRelevance(query, response) ==
    LET text == toLowerCase(query \o " " \o response)
        positiveMatches == CountKeywords(text, LEGAL_KEYWORDS_positive)
        negativeMatches == CountKeywords(text, LEGAL_KEYWORDS_negative)
        relevanceScore == positiveMatches - (negativeMatches * 2)
        score == Max(0, Min(10, relevanceScore))
        issues ==
            IF score < 3
            THEN <<Issue("TOPIC_IRRELEVANT", "CRITICAL",
                         "Query appears to be outside Indonesian law topics",
                         "Please ask about Indonesian laws, regulations, or legal procedures")>>
            ELSE IF negativeMatches > 0
            THEN <<Issue("TOPIC_IRRELEVANT", "MEDIUM",
                         "Response contains some non-legal content",
                         "Focus the response strictly on Indonesian legal matters")>>
            ELSE <<>>
    IN  Outcome(Int2Rat(score), issues, <<>>)

\* CITATION_PATTERNS.some(pattern => pattern.test(citation)): the patterns
\* k.. are tried in order until one matches.  li is the lastIndex of each
\* pattern before, and the result gives it afterwards.  SomeAfter is the
\* rest of some() once the test of pattern k has answered t.
RECURSIVE someTest(_, _, _)
SomeAfter(citation, li, k, t) ==
    IF t.found THEN [valid |-> TRUE, lastIndex |-> [li EXCEPT ![k] = t.lastIndex]]
    ELSE someTest(citation, [li EXCEPT ![k] = t.lastIndex], k + 1)

someTest(citation, li, k) ==
    IF k > NumPatterns THEN [valid |-> FALSE, lastIndex |-> li]
    ELSE SomeAfter(citation, li, k, TestTable[citation, k, li[k]])

isValidCitationFormat(citation, li) == someTest(citation, li, 1)

\* The issue the format validation raises for a citation, v being the
\* answer of isValidCitationFormat.
FormatIssue(citation, v) ==
    IF v.valid THEN <<>>
    ELSE <<Issue("MISSING_SOURCE", "LOW",
                 "Citation format may be incorrect: " \o citation,
                 "Use standard Indonesian legal citation format")>>

\* foundCitations.forEach(...): the format of each citation from the n-th
\* on is validated in turn; the LOW issues raised and the patterns'
\* lastIndex afterwards.  FormatsAfter is the rest of the loop once the
\* n-th citation has been answered v.
RECURSIVE validateFormats(_, _, _)
FormatsJoin(issue, rest) ==
    [issues |-> issue \o rest.issues, lastIndex |-> rest.lastIndex]

FormatsAfter(found, n, v) ==
    FormatsJoin(FormatIssue(found[n], v), validateFormats(found, n + 1, v.lastIndex))

validateFormats(found, n, li) ==
    IF n > Len(found) THEN [issues |-> <<>>, lastIndex |-> li]
    ELSE FormatsAfter(found, n, isValidCitationFormat(found[n], li))

\* The citations response.matchAll finds for each pattern in turn, the
\* pattern's lastIndex being li[k].
extractCitations(response, li) ==
    Flatten([k \in 1..NumPatterns |-> MatchAllTable[response, k, li[k]]])

\* Math.max(1, Math.floor(responseLength / 200))
expectedCitations(response) == Max(1, Len(response) \div 200)

\* A citation score without the cap Math.min(10, ...).
CitationScore_Uncapped(citationCount, expected) ==
    RatMul(Rat(citationCount, expected), Int2Rat(10))

\* The score of the citation check and the issue it raises on the number
\* of citations.
CitationScore(citationCount, expected) ==
    IF citationCount = 0 THEN Int2Rat(0)
    ELSE RatMin(Int2Rat(10), RatMul(Rat(citationCount, expected), Int2Rat(10)))

CitationCountIssues(citationCount, expected) ==
    IF citationCount = 0
    THEN <<Issue("MISSING_SOURCE", "CRITICAL",
                 "No legal source citations found in response",
                 "Include specific references to Indonesian laws (UU, KUHP, etc.) with article numbers")>>
    ELSE IF citationCount < expected
    THEN <<Issue("MISSING_SOURCE", "MEDIUM",
                 "Insufficient source citations for response length",
                 "Add more specific legal references to support claims")>>
    ELSE <<>>

\* What validateSourceCitations returns, sources being the citations found
\* and formats the outcome of the format validation.
CitationOutcome(response, sources, formats) ==
    [outcome |-> Outcome(CitationScore(Len(sources), expectedCitations(response)),
                         CitationCountIssues(Len(sources), expectedCitations(response))
                             \o formats.issues,
                         sources),
     lastIndex |-> formats.lastIndex]

CitationsFound(response, li, sources) ==
    CitationOutcome(response, sources, validateFormats(sources, 1, li))

\* validateSourceCitations reads and writes the lastIndex of the shared
\* patterns: li is their state before the call; the result holds the
\* check's outcome and their state after it.
validateSourceCitations(response, li) ==
    CitationsFound(response, li, extractCitations(response, li))

\* The entries of the three tables detectHallucinations cross-checks.
knowledgeEntries == KB_constitutionalLaw \o KB_criminalLaw \o KB_civilLaw

absolutePatterns ==
    << <<Lit("selalu"), Ws1, W1>>,
       <<Lit("tidak pernah"), Ws1, W1>>,
       <<Lit("semua"), Ws1, W1>>,
       <<Lit("tidak ada"), Ws1, W1>> >>

SIMILARITY_KB == Rat(3, 10)

detectHallucinations(response) ==
    LET lower == toLowerCase(response)
        misconceptions ==
            Pick(KB_commonMisconceptions,
                 {k \in 1..Len(KB_commonMisconceptions) :
                    includes(lower, replaceFirst(KB_commonMisconceptions[k][1], "_", " "))})
        misIssues ==
            [k \in 1..Len(misconceptions) |->
                Issue("HALLUCINATION", "HIGH",
                      "Potential misconception detected: " \o misconceptions[k][2],
                      "Verify this claim against current Indonesian law")]
        diverging ==
            Pick(knowledgeEntries,
                 {k \in 1..Len(knowledgeEntries) :
                    /\ includes(response, knowledgeEntries[k][1])
                    /\ RatLess(compareTwoStrings(lower, toLowerCase(knowledgeEntries[k][2])),
                               SIMILARITY_KB)})
        kbIssues ==
            [k \in 1..Len(diverging) |->
                Issue("HALLUCINATION", "MEDIUM",
                      "Content about " \o diverging[k][1] \o " may not align with established law",
                      "Double-check this legal provision")]
        absolutes ==
            {k \in 1..Len(absolutePatterns) : regexExec(response, absolutePatterns[k], 0) # NoMatch}
        absIssues ==
            [k \in 1..Cardinality(absolutes) |->
                Issue("HALLUCINATION", "LOW",
                      "Absolute statements should be avoided without clear legal basis",
                      "Use more qualified language or provide specific citations")]
        score == 10 - 3 * Len(misIssues) - 2 * Len(kbIssues) - Len(absIssues)
    IN  Outcome(Int2Rat(Max(0, score)), misIssues \o kbIssues \o absIssues, <<>>)

contradictoryPairs ==
    << <<"dilarang", "diperbolehkan">>,
       <<"wajib", "tidak wajib">>,
       <<"harus", "tidak harus">>,
       <<"boleh", "tidak boleh">>,
       <<"legal", "ilegal">> >>

\* Infinity is never reached from checkLogicalConsistency, which asks for
\* the distance only when both words occur; it is a number above every
\* distance here.
Infinity == 1000000

\* A distance that takes a word found inside the other word as not found.
findWordDistance_Apart(text, word1, word2) ==
    LET index1 == indexOf(text, word1)
        index2 == indexOf(text, word2)
    IN  IF index1 = -1 \/ index2 = -1 THEN Infinity
        ELSE IF index1 >= index2 /\ index1 + Len(word1) <= index2 + Len(word2) THEN Infinity
        ELSE IF index1 >= index2 THEN index1 - index2 ELSE index2 - index1

findWordDistance(text, word1, word2) ==
    LET index1 == indexOf(text, word1)
        index2 == indexOf(text, word2)
    IN  IF index1 = -1 \/ index2 = -1 THEN Infinity
        ELSE IF index1 >= index2 THEN index1 - index2 ELSE index2 - index1

\* response.split(/[.!?]+/).filter(s => s.trim().length > minLen)
sentencesOf(response, minLen) ==
    LET parts == SplitRuns(response, SentenceEnds)
    IN  Pick(parts, {k \in 1..Len(parts) : Len(trim(parts[k])) > minLen})

\* A consistency check that flags a pair up to 50 characters apart.
checkLogicalConsistency_AtMost50(response) ==
    LET lower == toLowerCase(response)
        sentences == sentencesOf(response, 10)
        contradictions ==
            Pick(contradictoryPairs,
                 {k \in 1..Len(contradictoryPairs) :
                    /\ includes(lower, contradictoryPairs[k][1])
                    /\ includes(lower, contradictoryPairs[k][2])
                    /\ findWordDistance(lower, contradictoryPairs[k][1],
                                        contradictoryPairs[k][2]) <= 50})
        pairIssues ==
            [k \in 1..Len(contradictions) |->
                Issue("INCONSISTENCY", "HIGH",
                      "Potential contradiction found between \"" \o contradictions[k][1]
                          \o "\" and \"" \o contradictions[k][2] \o "\"",
                      "Clarify the specific circumstances for each statement")]
        flowScore ==
            Cardinality({i \in 1..(Len(sentences) - 1) :
                RatLess(Rat(2, 10), compareTwoStrings(toLowerCase(sentences[i]),
                                                      toLowerCase(sentences[i + 1])))})
        expectedFlow == Len(sentences) - 1
        \* flowScore < expectedFlow * 0.3
        flowIssues ==
            IF Len(sentences) >= 3 /\ 10 * flowScore < 3 * expectedFlow
            THEN <<Issue("INCONSISTENCY", "LOW",
                         "Response may lack logical flow between statements",
                         "Ensure ideas are connected and build upon each other")>>
            ELSE <<>>
        score == 10 - 3 * Len(pairIssues) - Len(flowIssues)
    IN  Outcome(Int2Rat(Max(0, score)), pairIssues \o flowIssues, <<>>)

checkLogicalConsistency(response) ==
    LET lower == toLowerCase(response)
        sentences == sentencesOf(response, 10)
        contradictions ==
            Pick(contradictoryPairs,
                 {k \in 1..Len(contradictoryPairs) :
                    /\ includes(lower, contradictoryPairs[k][1])
                    /\ includes(lower, contradictoryPairs[k][2])
                    /\ findWordDistance(lower, contradictoryPairs[k][1],
                                        contradictoryPairs[k][2]) < 50})
        pairIssues ==
            [k \in 1..Len(contradictions) |->
                Issue("INCONSISTENCY", "HIGH",
                      "Potential contradiction found between \"" \o contradictions[k][1]
                          \o "\" and \"" \o contradictions[k][2] \o "\"",
                      "Clarify the specific circumstances for each statement")]
        flowScore ==
            Cardinality({i \in 1..(Len(sentences) - 1) :
                RatLess(Rat(2, 10), compareTwoStrings(toLowerCase(sentences[i]),
                                                      toLowerCase(sentences[i + 1])))})
        expectedFlow == Len(sentences) - 1
        \* flowScore < expectedFlow * 0.3
        flowIssues ==
            IF Len(sentences) >= 3 /\ 10 * flowScore < 3 * expectedFlow
            THEN <<Issue("INCONSISTENCY", "LOW",
                         "Response may lack logical flow between statements",
                         "Ensure ideas are connected and build upon each other")>>
            ELSE <<>>
        score == 10 - 3 * Len(pairIssues) - Len(flowIssues)
    IN  Outcome(Int2Rat(Max(0, score)), pairIssues \o flowIssues, <<>>)

\* /\d+[\.\)]\s|\bpertama\b|\bkedua\b|\bketiga\b|\blangkah\b/gi.test(response)
hasSteps(response) ==
    LET lc == toLowerCase(response)
    IN  \/ \E i \in 1..(Len(lc) - 2) :
              IsDigit(Ch(lc, i)) /\ Ch(lc, i + 1) \in {".", ")"} /\ IsSpace(Ch(lc, i + 2))
        \/ hasWord(lc, "pertama")
        \/ hasWord(lc, "kedua")
        \/ hasWord(lc, "ketiga")
        \/ hasWord(lc, "langkah")

\* A completeness check that takes a query of 50 characters as complex.
validateCompleteness_From50(query, response) ==
    LET q == toLowerCase(query)
        r == toLowerCase(response)
        procedural ==
            IF (includes(q, "cara") \/ includes(q, "prosedur")) /\ ~hasSteps(response)
            THEN <<Issue("INCOMPLETE", "MEDIUM",
                         "Procedural query should include step-by-step guidance",
                         "Provide numbered steps or clear sequence of actions")>>
            ELSE <<>>
        brief ==
            IF Len(query) >= 50 /\ Len(response) < 100
            THEN <<Issue("INCOMPLETE", "MEDIUM",
                         "Response appears too brief for the complexity of the query",
                         "Provide more detailed explanation with relevant context")>>
            ELSE <<>>
        hasDefinition == includes(r, "adalah") \/ includes(r, "yaitu") \/ includes(r, "merupakan")
        definition ==
            IF (includes(q, "apa itu") \/ includes(q, "definisi")) /\ ~hasDefinition
            THEN <<Issue("INCOMPLETE", "LOW",
                         "Definition query should include clear definition",
                         "Provide explicit definition using \"adalah\" or \"yaitu\"")>>
            ELSE <<>>
        score == 10 - 3 * Len(procedural) - 2 * Len(brief) - Len(definition)
    IN  Outcome(Int2Rat(Max(0, score)), procedural \o brief \o definition, <<>>)

validateCompleteness(query, response) ==
    LET q == toLowerCase(query)
        r == toLowerCase(response)
        procedural ==
            IF (includes(q, "cara") \/ includes(q, "prosedur")) /\ ~hasSteps(response)
            THEN <<Issue("INCOMPLETE", "MEDIUM",
                         "Procedural query should include step-by-step guidance",
                         "Provide numbered steps or clear sequence of actions")>>
            ELSE <<>>
        brief ==
            IF Len(query) > 50 /\ Len(response) < 100
            THEN <<Issue("INCOMPLETE", "MEDIUM",
                         "Response appears too brief for the complexity of the query",
                         "Provide more detailed explanation with relevant context")>>
            ELSE <<>>
        hasDefinition == includes(r, "adalah") \/ includes(r, "yaitu") \/ includes(r, "merupakan")
        definition ==
            IF (includes(q, "apa itu") \/ includes(q, "definisi")) /\ ~hasDefinition
            THEN <<Issue("INCOMPLETE", "LOW",
                         "Definition query should include clear definition",
                         "Provide explicit definition using \"adalah\" or \"yaitu\"")>>
            ELSE <<>>
        score == 10 - 3 * Len(procedural) - 2 * Len(brief) - Len(definition)
    IN  Outcome(Int2Rat(Max(0, score)), procedural \o brief \o definition, <<>>)

unsafePatterns ==
    << <<"cara", "korupsi">>,
       <<"cara", "suap">>,
       <<"cara", "menghindar", "hukum">>,
       <<"cara", "melanggar">>,
       <<"tips", "menghindari", "sanksi">> >>

inappropriatePatterns ==
    << <<"pasti", "menang">>,
       <<"dijamin", "bebas">>,
       <<"tidak akan", "ketahuan">> >>

\* A safety check whose unsafe patterns raise HIGH issues.
checkUnsafeContent_UnsafeIsHigh(response) ==
    LET unsafe == {k \in 1..Len(unsafePatterns) : testChain(response, unsafePatterns[k])}
        inappropriate ==
            {k \in 1..Len(inappropriatePatterns) : testChain(response, inappropriatePatterns[k])}
        score == (IF unsafe # {} THEN 0 ELSE 10) - 4 * Cardinality(inappropriate)
    IN  Outcome(Int2Rat(Max(0, score)),
                [k \in 1..(Cardinality(unsafe) + Cardinality(inappropriate)) |->
                    Issue("UNSAFE_CONTENT", "HIGH",
                          "Response provides inappropriate legal assurances",
                          "Avoid giving absolute guarantees about legal outcomes")],
                <<>>)

checkUnsafeContent(response) ==
    LET unsafe == {k \in 1..Len(unsafePatterns) : testChain(response, unsafePatterns[k])}
        unsafeIssues ==
            [k \in 1..Cardinality(unsafe) |->
                Issue("UNSAFE_CONTENT", "CRITICAL",
                      "Response contains potentially harmful legal advice",
                      "Focus on legal compliance and proper procedures instead")]
        inappropriate ==
            {k \in 1..Len(inappropriatePatterns) : testChain(response, inappropriatePatterns[k])}
        inappropriateIssues ==
            [k \in 1..Cardinality(inappropriate) |->
                Issue("UNSAFE_CONTENT", "HIGH",
                      "Response provides inappropriate legal assurances",
                      "Avoid giving absolute guarantees about legal outcomes")]
        score == (IF unsafe # {} THEN 0 ELSE 10) - 4 * Cardinality(inappropriate)
    IN  Outcome(Int2Rat(Max(0, score)), unsafeIssues \o inappropriateIssues, <<>>)

formalWords ==
    << "berdasarkan", "sebagaimana", "dimaksud", "ketentuan", "peraturan",
       "undang-undang", "pasal", "ayat", "huruf", "angka", "jo", "juncto" >>

assessFormalLanguage(text) ==
    LET words == SplitRuns(toLowerCase(text), Whitespace)
        formalCount ==
            Cardinality({k \in 1..Len(words) :
                \E f \in 1..Len(formalWords) : includes(words[k], formalWords[f])})
    IN  RatMin(Int2Rat(10), Rat(formalCount * 100, Len(words)))

\* A quality check that takes a single pair of similar sentences as repetition.
assessQuality_AnyPair(response) ==
    LET short ==
            IF Len(response) < 50
            THEN <<Issue("LOW_QUALITY", "MEDIUM",
                         "Response is too short to be informative",
                         "Provide more detailed explanation")>>
            ELSE <<>>
        sentences == sentencesOf(response, 5)
        repetitionCount ==
            Cardinality({p \in (1..Len(sentences)) \X (1..Len(sentences)) :
                /\ p[1] < p[2]
                /\ RatLess(Rat(8, 10), compareTwoStrings(toLowerCase(sentences[p[1]]),
                                                         toLowerCase(sentences[p[2]])))})
        repetitive ==
            IF repetitionCount > 0
            THEN <<Issue("LOW_QUALITY", "LOW",
                         "Response contains repetitive content",
                         "Vary the language and avoid redundancy")>>
            ELSE <<>>
        informal ==
            IF RatLess(assessFormalLanguage(response), Int2Rat(5))
            THEN <<Issue("LOW_QUALITY", "LOW",
                         "Response should use more formal legal language",
                         "Use appropriate legal terminology and formal Indonesian")>>
            ELSE <<>>
        score == 10 - 3 * Len(short) - 2 * Len(repetitive) - Len(informal)
    IN  Outcome(Int2Rat(Max(0, score)), short \o repetitive \o informal, <<>>)

assessQuality(response) ==
    LET short ==
            IF Len(response) < 50
            THEN <<Issue("LOW_QUALITY", "MEDIUM",
                         "Response is too short to be informative",
                         "Provide more detailed explanation")>>
            ELSE <<>>
        sentences == sentencesOf(response, 5)
        repetitionCount ==
            Cardinality({p \in (1..Len(sentences)) \X (1..Len(sentences)) :
                /\ p[1] < p[2]
                /\ RatLess(Rat(8, 10), compareTwoStrings(toLowerCase(sentences[p[1]]),
                                                         toLowerCase(sentences[p[2]])))})
        repetitive ==
            IF repetitionCount > 1
            THEN <<Issue("LOW_QUALITY", "LOW",
                         "Response contains repetitive content",
                         "Vary the language and avoid redundancy")>>
            ELSE <<>>
        informal ==
            IF RatLess(assessFormalLanguage(response), Int2Rat(5))
            THEN <<Issue("LOW_QUALITY", "LOW",
                         "Response should use more formal legal language",
                         "Use appropriate legal terminology and formal Indonesian")>>
            ELSE <<>>
        score == 10 - 3 * Len(short) - 2 * Len(repetitive) - Len(informal)
    IN  Outcome(Int2Rat(Max(0, score)), short \o repetitive \o informal, <<>>)

\* Suggestions that are those of the issues only.
generateSuggestions_OwnOnly(issues) ==
    Dedupe([k \in 1..Len(issues) |-> issues[k].suggestion])

generateSuggestions(issues) ==
    LET own == [k \in 1..Len(issues) |-> issues[k].suggestion]
        has(type) == \E k \in 1..Len(issues) : issues[k].type = type
        general ==
            (IF has("MISSING_SOURCE")
             THEN <<"Include specific references to Indonesian laws with article numbers">>
             ELSE <<>>)
            \o (IF has("TOPIC_IRRELEVANT")
                THEN <<"Focus strictly on Indonesian legal topics and regulations">>
                ELSE <<>>)
            \o (IF has("INCOMPLETE")
                THEN <<"Provide more comprehensive coverage of the legal topic">>
                ELSE <<>>)
    IN  Dedupe(own \o general)


(***************************************************************************)
(* The orchestrator, validateResponse.                                     *)

\* The messages of generateErrorMessage.
MSG_TOPIC_IRRELEVANT == "Maaf, saya hanya dapat membantu dengan pertanyaan tentang hukum Indonesia. Silakan tanyakan tentang undang-undang, peraturan, atau aspek hukum lainnya yang berlaku di Indonesia."

MSG_MISSING_SOURCE == "Respons memerlukan sumber hukum yang valid (UU/Peraturan). Silakan ajukan pertanyaan yang lebih spesifik agar saya dapat memberikan jawaban dengan rujukan yang tepat."

MSG_UNSAFE_CONTENT == "Maaf, saya tidak dapat memberikan informasi yang dapat digunakan untuk melanggar hukum. Silakan tanyakan tentang cara mematuhi peraturan yang berlaku."

MSG_DEFAULT == "Respons tidak dapat divalidasi sebagai informasi hukum yang akurat. Silakan coba dengan pertanyaan yang lebih spesifik tentang hukum Indonesia."

MSG_CONSULT == "Informasi yang diberikan mungkin tidak lengkap atau akurat. Untuk kepastian hukum, konsultasikan dengan ahli hukum yang berwenang."

\* switch (issue.type)
MessageFor(issue) ==
    CASE issue.type = "TOPIC_IRRELEVANT" -> MSG_TOPIC_IRRELEVANT
      [] issue.type = "MISSING_SOURCE" -> MSG_MISSING_SOURCE
      [] issue.type = "UNSAFE_CONTENT" -> MSG_UNSAFE_CONTENT
      [] OTHER -> MSG_DEFAULT

\* result.issues.filter(issue => issue.severity === 'CRITICAL')
criticalIssuesOf(issues) ==
    Pick(issues, {k \in 1..Len(issues) : issues[k].severity = "CRITICAL"})

\* The message for a list of critical issues.
CriticalMessage(critical) ==
    IF Len(critical) > 0 THEN MessageFor(critical[1]) ELSE MSG_CONSULT

\* An error message chosen by the last critical issue.
generateErrorMessage_LastCritical(res) ==
    IF Len(criticalIssuesOf(res.issues)) > 0
    THEN MessageFor(criticalIssuesOf(res.issues)[Len(criticalIssuesOf(res.issues))])
    ELSE MSG_CONSULT

generateErrorMessage(res) == CriticalMessage(criticalIssuesOf(res.issues))

(***************************************************************************)
VALID_CONFIDENCE == 70

\* A validity test that looks at the confidence alone.
hasCritical_NoVeto(issues) == FALSE

\* result.issues.some(issue => issue.severity === 'CRITICAL')
hasCritical(issues) == \E k \in 1..Len(issues) : issues[k].severity = "CRITICAL"

RECURSIVE RatSum(_)
RatSum(seq) == IF seq = <<>> THEN Int2Rat(0) ELSE RatAdd(Head(seq), RatSum(Tail(seq)))

\* A result that carries suggestions whether it is valid or not.
withSuggestions_Always(res) ==
    [isValid |-> res.isValid, validatedText |-> res.validatedText,
     confidence |-> res.confidence, issues |-> res.issues, sources |-> res.sources,
     suggestions |-> generateSuggestions(res.issues)]

\* if (!result.isValid) result.suggestions = this.generateSuggestions(...):
\* the field suggestions exists on an invalid result only.
withSuggestions(res) ==
    IF res.isValid THEN res
    ELSE [isValid |-> res.isValid, validatedText |-> res.validatedText,
          confidence |-> res.confidence, issues |-> res.issues, sources |-> res.sources,
          suggestions |-> generateSuggestions(res.issues)]

\* An aggregation that takes a result as valid at a confidence of 100 only.
aggregate_OnlyPerfect(checks, text) ==
    LET issues == Flatten([k \in 1..Len(checks) |-> checks[k].issues])
        sources == Flatten([k \in 1..Len(checks) |-> checks[k].sources])
        totalScore == RatSum([k \in 1..Len(checks) |-> checks[k].score])
        maxScore == SumSeq([k \in 1..Len(checks) |-> checks[k].maxScore])
        confidence ==
            IF maxScore > 0 THEN RatMul(RatMul(totalScore, Rat(1, maxScore)), Int2Rat(100))
            ELSE Int2Rat(0)
    IN  withSuggestions(
            [isValid |-> RatLeq(Int2Rat(100), confidence) /\ ~hasCritical(issues),
             validatedText |-> text, confidence |-> confidence,
             issues |-> issues, sources |-> Dedupe(sources)])

\* The part of validateResponse after the await, the array checks being
\* the fulfilment values of the seven promises: the aggregation.
aggregate(checks, text) ==
    LET issues == Flatten([k \in 1..Len(checks) |-> checks[k].issues])
        sources == Flatten([k \in 1..Len(checks) |-> checks[k].sources])
        totalScore == RatSum([k \in 1..Len(checks) |-> checks[k].score])
        maxScore == SumSeq([k \in 1..Len(checks) |-> checks[k].maxScore])
        confidence ==
            IF maxScore > 0 THEN RatMul(RatMul(totalScore, Rat(1, maxScore)), Int2Rat(100))
            ELSE Int2Rat(0)
    IN  withSuggestions(
            [isValid |-> RatLeq(Int2Rat(VALID_CONFIDENCE), confidence) /\ ~hasCritical(issues),
             validatedText |-> text, confidence |-> confidence,
             issues |-> issues, sources |-> Dedupe(sources)])

\* A catch block that returns the result object as it was initialised.
fallback_InitialResult(text) ==
    [isValid |-> FALSE, validatedText |-> text, confidence |-> Int2Rat(0),
     issues |-> <<>>, sources |-> <<>>]

\* The result of the catch block.
fallback(text) ==
    [isValid |-> FALSE, validatedText |-> text, confidence |-> Int2Rat(0),
     issues |-> <<Issue("LOW_QUALITY", "CRITICAL", "Validation system error occurred",
                        "Please try again with a different query")>>,
     sources |-> <<>>]

\* A settled promise.
Fulfilled(v) == [status |-> "fulfilled", value |-> v]

Rejected == [status |-> "rejected", value |-> <<>>]

\* A Promise.all that hands over the values in the order the promises
\* settled.
PromiseAll_SettleOrder(ps, order) ==
    IF \E k \in 1..Len(ps) : ps[k].status = "rejected" THEN Rejected
    ELSE Fulfilled([n \in 1..Len(order) |-> ps[order[n]].value])

\* Promise.all(ps), the promises ps settling in the order `order` (a
\* permutation of their indices): each fulfilment value is stored at the
\* index of its promise; one rejection rejects the whole.
RECURSIVE storeValues(_, _, _, _)
storeValues(ps, order, n, values) ==
    IF n > Len(order) THEN values
    ELSE storeValues(ps, order, n + 1,
                     [values EXCEPT ![order[n]] = ps[order[n]].value])

PromiseAll(ps, order) ==
    IF \E k \in 1..Len(ps) : ps[k].status = "rejected" THEN Rejected
    ELSE Fulfilled(storeValues(ps, order, 1, [k \in 1..Len(ps) |-> <<>>]))

(***************************************************************************)
(* Evaluation table: the checks that read no shared state on the inputs   *)
(* of the model, computed once.                                            *)
(***************************************************************************)
\* The checks that read no shared state, in the order of the array of
\* validateResponse (the source citation check, second, is left out).
statelessChecks(q, r) ==
    << validateTopicRelevance(q, r), detectHallucinations(r), checkLogicalConsistency(r),
       validateCompleteness(q, r), checkUnsafeContent(r), assessQuality(r) >>

StatelessTable == [q \in Queries, r \in Responses |-> statelessChecks(q, r)]

ChatTable == [q \in ChatQueries, r \in ChatAnswers |-> statelessChecks(q, r)]

(***************************************************************************)
(* pages/api/chat.ts: the rate limit per client IP.  A Map is a function   *)
(* whose domain is the set of its keys.                                    *)
(***************************************************************************)
\* Map.prototype.set
MapSet(map, key, value) ==
    [k \in DOMAIN map \cup {key} |-> IF k = key THEN value ELSE map[k]]

EmptyMap == [k \in {} |-> 0]

\* const windowMs = 60 * 1000
WINDOW_MS == 60 * 1000

\* parseInt(process.env.RATE_LIMIT_RPM || '60') when the variable is not set.
DEFAULT_RPM == 60

\* checkRateLimit(clientIp), store being rateLimitStore, time Date.now()
\* and limit the value of RATE_LIMIT_RPM: what it returns, and the store
\* afterwards.
checkRateLimit(clientIp, store, time, limit) ==
    IF clientIp \notin DOMAIN store \/ time > store[clientIp].resetTime
    THEN [allowed |-> TRUE, remaining |-> limit - 1, resetTime |-> time + WINDOW_MS,
          store |-> MapSet(store, clientIp, [count |-> 1, resetTime |-> time + WINDOW_MS])]
    ELSE IF store[clientIp].count >= limit
    THEN [allowed |-> FALSE, remaining |-> 0, resetTime |-> store[clientIp].resetTime,
          store |-> store]
    ELSE [allowed |-> TRUE, remaining |-> limit - (store[clientIp].count + 1),
          resetTime |-> store[clientIp].resetTime,
          store |-> MapSet(store, clientIp,
                           [count |-> store[clientIp].count + 1,
                            resetTime |-> store[clientIp].resetTime])]

\* The inputs of the server: the client addresses, the values of
\* RATE_LIMIT_RPM, and the clock, which advances by half a window up to
\* MaxTicks times.
ClientIps == {"10.0.0.1", "10.0.0.2"}

RpmValues == {1, 2}

StepMs == WINDOW_MS \div 2

MaxTicks == 3

\* The longest sequence of rate-limit decisions followed.
MaxDecisions == 4

(***************************************************************************)
(* lib/gemini.ts: the RateLimiter and GeminiClient.generateResponse.       *)
(***************************************************************************)
\* constructor(maxRequests = 60, windowMs = 60000)
LIMITER_WINDOW_MS == 60000

\* setTimeout(() => reject(new Error('Request timeout')), 30000)
REQUEST_TIMEOUT_MS == 30000

\* .substring(0, 1000)
MAX_INPUT_LENGTH == 1000

\* requests.filter(time => now - time < this.windowMs)
validRequests(times, time) ==
    Pick(times, {k \in 1..Len(times) : time - times[k] < LIMITER_WINDOW_MS})

\* this.requests.get(identifier) || []
requestsOf(log, identifier) == IF identifier \in DOMAIN log THEN log[identifier] ELSE <<>>

\* A limiter that admits one request more than maxRequests.
canMakeRequest_OneMore(log, identifier, time, maxRequests) ==
    IF Len(validRequests(requestsOf(log, identifier), time)) > maxRequests
    THEN [allowed |-> FALSE, log |-> log]
    ELSE [allowed |-> TRUE,
          log |-> MapSet(log, identifier,
                         Append(validRequests(requestsOf(log, identifier), time), time))]

\* RateLimiter.canMakeRequest(identifier), log being this.requests and time
\* Date.now(): the answer, and this.requests afterwards.
canMakeRequest(log, identifier, time, maxRequests) ==
    IF Len(validRequests(requestsOf(log, identifier), time)) >= maxRequests
    THEN [allowed |-> FALSE, log |-> log]
    ELSE [allowed |-> TRUE,
          log |-> MapSet(log, identifier,
                         Append(validRequests(requestsOf(log, identifier), time), time))]

\* Math.min(...requests)
Oldest(times) == SetMin({times[k] : k \in 1..Len(times)})

\* RateLimiter.getTimeUntilReset(identifier)
getTimeUntilReset(log, identifier, time) ==
    IF requestsOf(log, identifier) = <<>> THEN 0
    ELSE Max(0, LIMITER_WINDOW_MS - (time - Oldest(requestsOf(log, identifier))))

\* Math.ceil(ms / 1000) for an integer ms.
CeilSeconds(ms) == IF ms >= 0 THEN (ms + 999) \div 1000 ELSE -((-ms) \div 1000)

\* GeminiClient.checkRateLimit(identifier), answered by canMakeRequest as
\* can.
ClientLimit(can, identifier, time) ==
    IF can.allowed THEN [allowed |-> TRUE, retryAfter |-> 0, log |-> can.log]
    ELSE [allowed |-> FALSE,
          retryAfter |-> CeilSeconds(getTimeUntilReset(can.log, identifier, time)),
          log |-> can.log]

clientCheckRateLimit(log, identifier, time, maxRequests) ==
    ClientLimit(canMakeRequest(log, identifier, time, maxRequests), identifier, time)

\* Number.prototype.toString for a natural number.
RECURSIVE NumToString(_)
NumToString(n) ==
    IF n < 10 THEN SubSeq("0123456789", n + 1, n + 1)
    ELSE NumToString(n \div 10) \o SubSeq("0123456789", (n % 10) + 1, (n % 10) + 1)

\* s.replace(/[<>"'&]/g, ''): s without the characters of chars (by halves).
RECURSIVE removeChars(_, _)
removeChars(s, chars) ==
    IF Len(s) = 0 THEN ""
    ELSE IF Len(s) = 1 THEN (IF s \in chars THEN "" ELSE s)
    ELSE removeChars(SubSeq(s, 1, Len(s) \div 2), chars)
            \o removeChars(SubSeq(s, Len(s) \div 2 + 1, Len(s)), chars)

HarmfulChars == {"<", ">", "\"", "'", "&"}

\* input.trim().replace(/[<>"'&]/g, '').substring(0, 1000)
Sanitized(input) ==
    SubSeq(removeChars(trim(input), HarmfulChars), 1,
           Min(MAX_INPUT_LENGTH, Len(removeChars(trim(input), HarmfulChars))))

\* sanitizeInput(input): the sanitized string, or the Error it throws.
SanitizeOutcome(input, sanitized) ==
    IF input = ""
    THEN [thrown |-> TRUE, message |-> "Invalid input: message must be a non-empty string"]
    ELSE IF Len(sanitized) = 0
    THEN [thrown |-> TRUE, message |-> "Input is empty after sanitization"]
    ELSE [thrown |-> FALSE, value |-> sanitized]

sanitizeInput(input) == SanitizeOutcome(input, Sanitized(input))

\* The inputs of generateResponse: the messages (the empty one, the one of
\* the tests, one of 1001 characters) and the client identifiers.
LongInput == Repeat(Repeat("x", 10), 100) \o "x"

ClientMessages == {"", "Test query", LongInput}

ClientIds == {"anonymous", "session-1"}

\* The messages of the chat requests: none, whitespace only, one that is
\* too long, one that has only characters sanitizeInput removes, and a
\* question.
ChatMessages == {"", "   ", LongInput, "<>", "Test query"}

SanitizeTable == [input \in ClientMessages \cup ChatMessages |-> sanitizeInput(input)]

\* The results of GeminiClient.generateResponse (usage, an estimate of
\* token counts that nothing reads, is left out).
RateLimitedResponse(retryAfter) ==
    [text |-> "Rate limit exceeded. Please wait " \o NumToString(retryAfter)
                  \o " seconds before making another request.",
     success |-> FALSE, error |-> "RATE_LIMITED"]

\* The outer catch.
UnexpectedResponse(message) ==
    [text |-> "Maaf, terjadi kesalahan sistem. Tim teknis kami akan segera memperbaikinya.",
     success |-> FALSE, error |-> message]

\* generateResponse from its start to the call of the provider, limited
\* being the answer of checkRateLimit and clean that of sanitizeInput:
\* either it has returned (settled, with its response), or it awaits the
\* provider, which it has called with the prompt for the sanitized message.
GenerateStarted(limited, clean) ==
    IF ~limited.allowed
    THEN [settled |-> TRUE, called |-> FALSE, prompt |-> "",
          response |-> RateLimitedResponse(limited.retryAfter)]
    ELSE IF clean.thrown
    THEN [settled |-> TRUE, called |-> FALSE, prompt |-> "",
          response |-> UnexpectedResponse(clean.message)]
    ELSE [settled |-> FALSE, called |-> TRUE,
          prompt |-> "\n\nPertanyaan pengguna: " \o clean.value]

\* What the provider does with a call: it returns a text, or it fails with
\* an Error that has a message; or the client's own timer fires first.
\* (response.text() is taken to return the text of a call that succeeded.)
ProviderTexts == {"Mocked response from Gemini API", " \n"}

ProviderErrors == {"timeout", "quota exceeded", "Unknown API error", "rate limit reached"}

Outcomes ==
    {[kind |-> "text", text |-> t] : t \in ProviderTexts}
        \cup {[kind |-> "error", message |-> m] : m \in ProviderErrors}

TimerFired == [kind |-> "error", message |-> "Request timeout"]

ChatOutcomes ==
    {[kind |-> "text", text |-> t] : t \in ChatTexts}
        \cup {[kind |-> "error", message |-> "quota exceeded"]}

\* A client that reports every failure of the provider as API_ERROR.
generateFinish_AlwaysApiError(outcome) ==
    IF outcome.kind = "error"
    THEN [text |-> "Terjadi kesalahan dalam memproses permintaan Anda. Silakan coba lagi.",
          success |-> FALSE, error |-> "API_ERROR"]
    ELSE IF Len(trim(outcome.text)) = 0
    THEN [text |-> "Maaf, tidak dapat menghasilkan respons yang sesuai. Silakan coba dengan pertanyaan yang lebih spesifik.",
          success |-> FALSE, error |-> "EMPTY_RESPONSE"]
    ELSE [text |-> trim(outcome.text), success |-> TRUE]

\* generateResponse from the settling of Promise.race to its return.
generateFinish(outcome) ==
    IF outcome.kind = "error"
    THEN IF includes(outcome.message, "timeout")
         THEN [text |-> "Maaf, sistem sedang mengalami keterlambatan. Silakan coba lagi dalam beberapa saat.",
               success |-> FALSE, error |-> "TIMEOUT"]
         ELSE IF includes(outcome.message, "quota") \/ includes(outcome.message, "limit")
         THEN [text |-> "Sistem sedang sibuk. Silakan coba lagi nanti.",
               success |-> FALSE, error |-> "QUOTA_EXCEEDED"]
         ELSE [text |-> "Terjadi kesalahan dalam memproses permintaan Anda. Silakan coba lagi.",
               success |-> FALSE, error |-> "API_ERROR"]
    ELSE IF Len(trim(outcome.text)) = 0
    THEN [text |-> "Maaf, tidak dapat menghasilkan respons yang sesuai. Silakan coba dengan pertanyaan yang lebih spesifik.",
          success |-> FALSE, error |-> "EMPTY_RESPONSE"]
    ELSE [text |-> trim(outcome.text), success |-> TRUE]

FinishTable ==
    [outcome \in Outcomes \cup ChatOutcomes \cup {TimerFired} |-> generateFinish(outcome)]

\* The calls of generateResponse made on the client directly.
MaxClientCalls == 3

ClientCalls == 1..MaxClientCalls

\* The requests the handler receives.
MaxHttp == 2

Https == 1..MaxHttp

(***************************************************************************)
(* pages/api/chat.ts: the handler.                                         *)
(***************************************************************************)
\* if (message.length > 1000)
MAX_MESSAGE_LENGTH == 1000

\* A request: its method, its content type, the message of its body (""
\* when the body has none), the address getClientIp finds for it and the
\* sessionId of its body (NoSession when the body has none).
NoSession == "(none)"

Request(m, t, message, clientIp, s) ==
    [method |-> m, contentType |-> t, message |-> message, clientIp |-> clientIp,
     sessionId |-> s]

ChatRequests ==
    {Request("OPTIONS", "", "", clientIp, NoSession) : clientIp \in ClientIps}
        \cup {Request("GET", "", "", clientIp, NoSession) : clientIp \in ClientIps}
        \cup {Request("POST", "text/plain", "Test query", clientIp, NoSession) :
                  clientIp \in ClientIps}
        \cup {Request("POST", "application/json", message, clientIp, NoSession) :
                  message \in ChatMessages, clientIp \in ClientIps}
        \cup {Request("POST", "application/json", "Test query", clientIp, "session-1") :
                  clientIp \in ClientIps}

\* A validateRequest that lets messages of any length pass.
validateRequest_AnyLength(req) ==
    IF req.method # "POST"
    THEN [isValid |-> FALSE, error |-> "Method not allowed. Use POST."]
    ELSE IF ~includes(req.contentType, "application/json")
    THEN [isValid |-> FALSE, error |-> "Content-Type must be application/json"]
    ELSE IF req.message = ""
    THEN [isValid |-> FALSE, error |-> "Message is required and must be a string"]
    ELSE IF Len(trim(req.message)) = 0
    THEN [isValid |-> FALSE, error |-> "Message cannot be empty"]
    ELSE [isValid |-> TRUE]

\* validateRequest(req)
validateRequest(req) ==
    IF req.method # "POST"
    THEN [isValid |-> FALSE, error |-> "Method not allowed. Use POST."]
    ELSE IF ~includes(req.contentType, "application/json")
    THEN [isValid |-> FALSE, error |-> "Content-Type must be application/json"]
    ELSE IF req.message = ""
    THEN [isValid |-> FALSE, error |-> "Message is required and must be a string"]
    ELSE IF Len(trim(req.message)) = 0
    THEN [isValid |-> FALSE, error |-> "Message cannot be empty"]
    ELSE IF Len(req.message) > MAX_MESSAGE_LENGTH
    THEN [isValid |-> FALSE, error |-> "Message too long (max 1000 characters)"]
    ELSE [isValid |-> TRUE]

ValidateTable == [req \in ChatRequests |-> validateRequest(req)]

\* const { message, sessionId = clientIp } = req.body
sessionOf(req) == IF req.sessionId = NoSession THEN req.clientIp ELSE req.sessionId

\* The replies of the handler.
NoReply == [status |-> 0]

PreflightReply == [status |-> 200]

InvalidRequestReply(message) ==
    [status |-> 400, body |-> [error |-> message, code |-> "INVALID_REQUEST"]]

RateLimitedReply(retryAfter) ==
    [status |-> 429, retryAfter |-> retryAfter,
     body |-> [error |-> "Rate limit exceeded", code |-> "RATE_LIMITED",
               details |-> "Please wait " \o NumToString(retryAfter)
                               \o " seconds before making another request"]]

\* code: aiResponse.error || 'AI_ERROR'
AiErrorReply(ai) ==
    [status |-> 500,
     body |-> [error |-> ai.text,
               code |-> IF "error" \in DOMAIN ai /\ ai.error # "" THEN ai.error ELSE "AI_ERROR"]]

\* A handler that sends the text it validated whatever the verdict.
ValidatedReply_AlwaysText(res, limited) ==
    IF res.isValid
    THEN [status |-> 200,
          body |-> [response |-> res.validatedText, isValid |-> TRUE,
                    confidence |-> res.confidence, sources |-> res.sources,
                    rateLimit |-> [remaining |-> limited.remaining,
                                   resetTime |-> limited.resetTime]]]
    ELSE [status |-> 200,
          body |-> [response |-> res.validatedText, isValid |-> FALSE,
                    confidence |-> res.confidence, sources |-> res.sources,
                    error |-> "VALIDATION_FAILED",
                    rateLimit |-> [remaining |-> limited.remaining,
                                   resetTime |-> limited.resetTime]]]

\* The reply for the ValidationResult res, limited being what
\* checkRateLimit answered for the request.
ValidatedReply(res, limited) ==
    IF res.isValid
    THEN [status |-> 200,
          body |-> [response |-> res.validatedText, isValid |-> TRUE,
                    confidence |-> res.confidence, sources |-> res.sources,
                    rateLimit |-> [remaining |-> limited.remaining,
                                   resetTime |-> limited.resetTime]]]
    ELSE [status |-> 200,
          body |-> [response |-> generateErrorMessage(res), isValid |-> FALSE,
                    confidence |-> res.confidence, sources |-> res.sources,
                    error |-> "VALIDATION_FAILED",
                    rateLimit |-> [remaining |-> limited.remaining,
                                   resetTime |-> limited.resetTime]]]

NoRateLimit == [allowed |-> FALSE, remaining |-> 0, resetTime |-> 0, checked |-> FALSE]

NoRequest == Request("", "", "", "", NoSession)

\* What the handler has done for a request (trail: the calls it made, in
\* order) and what it has got from them.
IdleExchange ==
    [pc |-> "idle", request |-> NoRequest, receivedAt |-> 0, trail |-> <<>>,
     rateLimit |-> NoRateLimit,
     prompt |-> "", outcome |-> [kind |-> "none"],
     ai |-> [text |-> "", success |-> FALSE, pending |-> TRUE],
     validation |-> [isValid |-> FALSE, pending |-> TRUE], reply |-> NoReply]

(***************************************************************************)
(* The state machine.                                                      *)
(*   lastIndex   the lastIndex of each of the module-level                 *)
(*               CITATION_PATTERNS (shared by all calls of the process)    *)
(*   pc          where each call of validateResponse is: not yet issued,   *)
(*               suspended at the await of Promise.all, or returned        *)
(*   userQuery, aiResponse   the arguments of each call                    *)
(*   promises    the seven promises of a call, settled, in the order of    *)
(*               the array handed to Promise.all                           *)
(*   settled     the order in which Promise.all saw them settle            *)
(*   result      what each call returned                                   *)
(***************************************************************************)
VARIABLES lastIndex, pc, userQuery, aiResponse, promises, settled, result

vars == <<lastIndex, pc, userQuery, aiResponse, promises, settled, result>>

callVars == <<pc, userQuery, aiResponse, promises, settled, result>>

(***************************************************************************)
(* The state of a single validation on a freshly loaded module, followed   *)
(* by generateErrorMessage on its result.                                  *)
(*   sample        the query and the response validated                    *)
(*   checked       the seven promises of the validation                    *)
(*   verdict       the ValidationResult                                    *)
(*   errorMessage  what generateErrorMessage returned for it               *)
(*   stage         how far this has got                                    *)
(***************************************************************************)
VARIABLES sample, checked, verdict, errorMessage, stage

checkVars == <<sample, checked, verdict, errorMessage, stage>>

(***************************************************************************)
(* The state of the server.                                                *)
(*   now             the clock, Date.now()                                 *)
(*   rateLimitRpm    the value of RATE_LIMIT_RPM in the environment        *)
(*   rateLimitStore  the Map of pages/api/chat.ts, keyed by client IP      *)
(*   decisions       what checkRateLimit answered, call after call         *)
(***************************************************************************)
VARIABLES now, rateLimitRpm, rateLimitStore, decisions

limitVars == <<now, rateLimitRpm, rateLimitStore, decisions>>

(***************************************************************************)
(* The state of the GeminiClient and of the calls of generateResponse      *)
(* made on it directly.                                                    *)
(*   requests     the Map of its RateLimiter: the times of the requests    *)
(*                admitted, by identifier                                  *)
(*   clientCalls  each call: where it is (not yet issued, awaiting         *)
(*                Promise.race, returned), its arguments, when it was      *)
(*                made, the prompt sent, how the race settled and the      *)
(*                response the call resolved with                          *)
(***************************************************************************)
VARIABLES requests, clientCalls

clientVars == <<requests, clientCalls>>

(***************************************************************************)
(* The requests the handler of pages/api/chat.ts has received.             *)
(*   exchanges    each request: where the handler is with it, the request, *)
(*                what the handler did for it and the reply it sent        *)
(***************************************************************************)
VARIABLES exchanges

chatVars == <<exchanges>>

serverVars == <<limitVars, clientVars, chatVars>>

\* The lastIndex of the regular-expression literals when the module is loaded.
FreshPatterns == [k \in 1..NumPatterns |-> 0]

NoResult == [isValid |-> FALSE, validatedText |-> "", confidence |-> Int2Rat(0),
             issues |-> <<>>, sources |-> <<>>, pending |-> TRUE]

NoSample == [query |-> "", response |-> ""]

NoOutcome == [kind |-> "none"]

NoResponse == [text |-> "", success |-> FALSE, pending |-> TRUE]

IdleCall == [pc |-> "idle", userMessage |-> "", clientId |-> "", calledAt |-> 0,
             prompt |-> "", outcome |-> NoOutcome, response |-> NoResponse]

\* No single validation is under way.
CheckParked ==
    /\ sample = NoSample
    /\ checked = <<>>
    /\ verdict = NoResult
    /\ errorMessage = ""
    /\ stage = "none"

\* The client has been constructed and generateResponse has not been called.
ClientParked ==
    /\ requests = EmptyMap
    /\ clientCalls = [c \in ClientCalls |-> IdleCall]

\* The handler has received no request.
ChatParked == exchanges = [h \in Https |-> IdleExchange]

\* The server has started and has received no request.
ServerParked ==
    /\ now = 0
    /\ rateLimitRpm = DEFAULT_RPM
    /\ rateLimitStore = EmptyMap
    /\ decisions = <<>>
    /\ ClientParked
    /\ ChatParked

\* The variables the calls of validateResponse do not touch.
beyondValidator == <<checkVars, serverVars>>

\* The validator module is loaded and validateResponse has not been called.
Loaded ==
    /\ lastIndex = FreshPatterns
    /\ pc = [c \in Calls |-> "idle"]
    /\ userQuery = [c \in Calls |-> ""]
    /\ aiResponse = [c \in Calls |-> ""]
    /\ promises = [c \in Calls |-> <<>>]
    /\ settled = [c \in Calls |-> <<>>]
    /\ result = [c \in Calls |-> NoResult]

Init == Loaded /\ CheckParked /\ ServerParked

\* The seven checks of a call run to completion, one after the other, when
\* validateResponse builds the array for Promise.all: none of them awaits.
\* li is the state of the shared patterns before; the result holds the
\* seven outcomes in the order of the array and the patterns' state after.
ChecksArray(s, cit) ==
    [outcomes |-> <<s[1], cit.outcome, s[2], s[3], s[4], s[5], s[6]>>,
     lastIndex |-> cit.lastIndex]

runChecks(q, r, li) == ChecksArray(StatelessTable[q, r], validateSourceCitations(r, li))

\* The promises of a call whose checks gave run: the check numbered fail
\* (if any) has thrown, so its promise is rejected; the others are
\* fulfilled with their outcomes.
PromisesOf(run, fail) ==
    [k \in 1..NumChecks |-> IF k = fail THEN Rejected ELSE Fulfilled(run.outcomes[k])]

\* validateResponse(q, r) is called and runs up to its await.
CallRun(c, q, r, fail, run) ==
    /\ promises' = [promises EXCEPT ![c] = PromisesOf(run, fail)]
    /\ lastIndex' = run.lastIndex
    /\ userQuery' = [userQuery EXCEPT ![c] = q]
    /\ aiResponse' = [aiResponse EXCEPT ![c] = r]
    /\ pc' = [pc EXCEPT ![c] = "awaiting"]
    /\ UNCHANGED <<settled, result>>
    /\ UNCHANGED beyondValidator

Call(c, q, r, fail) ==
    /\ pc[c] = "idle"
    /\ \A d \in 1..(c - 1) : pc[d] # "idle"
    /\ CallRun(c, q, r, fail, runChecks(q, r, lastIndex))

\* What validateResponse returns once Promise.all has settled as all: the
\* aggregated result, or the result of the catch block when it rejected.
Returned(all, text) ==
    IF all.status = "rejected" THEN fallback(text) ELSE aggregate(all.value, text)

\* The call resumes after its await and returns, its promises having
\* settled in the order `order`.
Return(c, order) ==
    /\ pc[c] = "awaiting"
    /\ result' = [result EXCEPT ![c] = Returned(PromiseAll(promises[c], order), aiResponse[c])]
    /\ settled' = [settled EXCEPT ![c] = order]
    /\ pc' = [pc EXCEPT ![c] = "done"]
    /\ UNCHANGED <<lastIndex, userQuery, aiResponse, promises>>
    /\ UNCHANGED beyondValidator

Next ==
    \/ \E c \in Calls, q \in Queries, r \in Responses, fail \in FailingChecks : Call(c, q, r, fail)
    \/ \E c \in Calls, order \in CompletionOrders : Return(c, order)

Spec == Init /\ [][Next]_vars

(***************************************************************************)
(* Single validations: validateResponse on a sample by a freshly loaded    *)
(* module, then generateErrorMessage on the result; and                    *)
(* generateErrorMessage on results written by hand, as the tests of the    *)
(* error messages do.                                                      *)
(***************************************************************************)
IssueTypes ==
    {"TOPIC_IRRELEVANT", "MISSING_SOURCE", "HALLUCINATION", "INCONSISTENCY",
     "INCOMPLETE", "UNSAFE_CONTENT", "LOW_QUALITY"}

Severities == {"LOW", "MEDIUM", "HIGH", "CRITICAL"}

\* The longest list of issues of a result written by hand.
MaxIssues == 2

HandIssues == {Issue(t, v, "Issue", "") : t \in IssueTypes, v \in Severities}

HandResults ==
    {[isValid |-> FALSE, validatedText |-> "", confidence |-> Int2Rat(0),
      issues |-> list, sources |-> <<>>] :
        list \in UNION {[1..n -> HandIssues] : n \in 0..MaxIssues}}

CheckInit ==
    /\ Loaded
    /\ checked = <<>>
    /\ errorMessage = ""
    /\ \/ sample \in Samples /\ verdict = NoResult /\ stage = "sampled"
       \/ sample = NoSample /\ verdict \in HandResults /\ stage = "validated"
    /\ ServerParked

\* validateResponse(sample.query, sample.response) from the call to the
\* return, the module being fresh and the promises settling in the order
\* of the array.
ValidateRun(run, fail) ==
    /\ checked' = PromisesOf(run, fail)
    /\ verdict' = Returned(PromiseAll(PromisesOf(run, fail), <<1, 2, 3, 4, 5, 6, 7>>),
                           sample.response)
    /\ stage' = "validated"
    /\ UNCHANGED <<sample, errorMessage, vars, serverVars>>

Validate(fail) ==
    /\ stage = "sampled"
    /\ ValidateRun(ChecksArray(statelessChecks(sample.query, sample.response),
                               validateSourceCitations(sample.response, FreshPatterns)),
                   fail)

\* validator.generateErrorMessage(verdict)
Report ==
    /\ stage = "validated"
    /\ errorMessage' = generateErrorMessage(verdict)
    /\ stage' = "reported"
    /\ UNCHANGED <<sample, checked, verdict, vars, serverVars>>

CheckNext ==
    \/ \E fail \in FailingChecks : Validate(fail)
    \/ Report

CheckSpec == CheckInit /\ [][CheckNext]_checkVars

(***************************************************************************)
(* The rate limit of the handler: requests of valid shape arrive from the  *)
(* client addresses as the clock advances, and checkRateLimit answers      *)
(* each.                                                                   *)
(***************************************************************************)
LimitInit ==
    /\ Loaded
    /\ CheckParked
    /\ now = 0
    /\ rateLimitRpm \in RpmValues
    /\ rateLimitStore = EmptyMap
    /\ decisions = <<>>
    /\ ClientParked
    /\ ChatParked

\* Time passes.
Tick ==
    /\ now < MaxTicks * StepMs
    /\ now' = now + StepMs
    /\ UNCHANGED <<rateLimitRpm, rateLimitStore, decisions, clientVars, chatVars,
                   vars, checkVars>>

\* const rateLimit = checkRateLimit(clientIp), answered as limited.
Limited(clientIp, limited) ==
    /\ rateLimitStore' = limited.store
    /\ decisions' = Append(decisions,
                           [clientIp |-> clientIp, time |-> now, allowed |-> limited.allowed,
                            remaining |-> limited.remaining, resetTime |-> limited.resetTime])
    /\ UNCHANGED <<now, rateLimitRpm, clientVars, chatVars, vars, checkVars>>

LimitRequest(clientIp) ==
    /\ Len(decisions) < MaxDecisions
    /\ Limited(clientIp, checkRateLimit(clientIp, rateLimitStore, now, rateLimitRpm))

LimitNext ==
    \/ Tick
    \/ \E clientIp \in ClientIps : LimitRequest(clientIp)

LimitSpec == LimitInit /\ [][LimitNext]_limitVars

(***************************************************************************)
(* The client: generateResponse is called on the GeminiClient with a       *)
(* message and a client identifier; the provider answers, fails, or the    *)
(* client's timer fires, as the clock advances.                            *)
(***************************************************************************)
ClientInit ==
    /\ Loaded
    /\ CheckParked
    /\ now = 0
    /\ rateLimitRpm \in RpmValues
    /\ rateLimitStore = EmptyMap
    /\ decisions = <<>>
    /\ ClientParked
    /\ ChatParked

\* generateResponse(userMessage, clientId) from the call to its first
\* await (or to its return, when it does not reach the provider).
GenerateRun(c, userMessage, clientId, limited, started) ==
    /\ requests' = limited.log
    /\ clientCalls' = [clientCalls EXCEPT ![c] =
            [pc |-> IF started.settled THEN "done" ELSE "awaiting",
             userMessage |-> userMessage, clientId |-> clientId, calledAt |-> now,
             prompt |-> started.prompt, outcome |-> NoOutcome,
             response |-> IF started.settled THEN started.response ELSE NoResponse]]
    /\ UNCHANGED <<limitVars, chatVars, vars, checkVars>>

GenerateLimited(c, userMessage, clientId, limited) ==
    GenerateRun(c, userMessage, clientId, limited,
                GenerateStarted(limited, SanitizeTable[userMessage]))

Generate(c, userMessage, clientId) ==
    /\ clientCalls[c].pc = "idle"
    /\ \A d \in 1..(c - 1) : clientCalls[d].pc # "idle"
    /\ GenerateLimited(c, userMessage, clientId,
                       clientCheckRateLimit(requests, clientId, now, rateLimitRpm))

\* Promise.race has settled as outcome and the call returns.
Finished(c, outcome) ==
    /\ clientCalls' = [clientCalls EXCEPT ![c].pc = "done", ![c].outcome = outcome,
                                          ![c].response = FinishTable[outcome]]
    /\ UNCHANGED <<requests, limitVars, chatVars, vars, checkVars>>

\* The provider answers or fails before the timer fires.
Settle(c, outcome) ==
    /\ clientCalls[c].pc = "awaiting"
    /\ now - clientCalls[c].calledAt <= REQUEST_TIMEOUT_MS
    /\ Finished(c, outcome)

\* The timer of 30 seconds fires first.
TimeOut(c) ==
    /\ clientCalls[c].pc = "awaiting"
    /\ now - clientCalls[c].calledAt >= REQUEST_TIMEOUT_MS
    /\ Finished(c, TimerFired)

ClientNext ==
    \/ Tick
    \/ \E c \in ClientCalls, userMessage \in ClientMessages, clientId \in ClientIds :
          Generate(c, userMessage, clientId)
    \/ \E c \in ClientCalls, outcome \in Outcomes : Settle(c, outcome)
    \/ \E c \in ClientCalls : TimeOut(c)

ClientSpec == ClientInit /\ [][ClientNext]_<<now, clientVars>>

(***************************************************************************)
(* The chat endpoint: requests arrive at the handler, which answers them   *)
(* at once or calls the provider through the GeminiClient and answers when *)
(* the provider has answered or failed or the client's timer has fired,    *)
(* as the clock advances. The handlers of all requests share the           *)
(* rateLimitStore, the client with its RateLimiter, and the validator      *)
(* with its patterns. GEMINI_API_KEY is set, so that getGeminiClient()    *)
(* returns the client.                                                     *)
(***************************************************************************)
ChatInit ==
    /\ Loaded
    /\ CheckParked
    /\ now = 0
    /\ rateLimitRpm \in RpmValues
    /\ rateLimitStore = EmptyMap
    /\ decisions = <<>>
    /\ ClientParked
    /\ ChatParked

chatSpecVars == <<lastIndex, now, rateLimitStore, requests, exchanges>>

\* The next request arrives.
Arrives(h) ==
    /\ exchanges[h].pc = "idle"
    /\ \A d \in 1..(h - 1) : exchanges[d].pc # "idle"

Checked(limited) ==
    [allowed |-> limited.allowed, remaining |-> limited.remaining,
     resetTime |-> limited.resetTime, checked |-> TRUE]

\* The handler has sent its reply without calling the provider.
Replied(h, req, trail, limited, ai, reply) ==
    exchanges' = [exchanges EXCEPT ![h] =
        [IdleExchange EXCEPT !.pc = "replied", !.request = req, !.receivedAt = now,
                             !.trail = trail, !.rateLimit = limited, !.ai = ai,
                             !.reply = reply]]

\* if (req.method === 'OPTIONS') { res.status(200).end(); return; }
Preflight(h, req) ==
    /\ Arrives(h)
    /\ req.method = "OPTIONS"
    /\ Replied(h, req, <<>>, NoRateLimit, IdleExchange.ai, PreflightReply)
    /\ UNCHANGED <<limitVars, clientVars, vars, checkVars>>

\* validateRequest fails: 400.
Reject(h, req) ==
    /\ Arrives(h)
    /\ req.method # "OPTIONS"
    /\ ~ValidateTable[req].isValid
    /\ Replied(h, req, <<"validateRequest">>, NoRateLimit, IdleExchange.ai,
               InvalidRequestReply(ValidateTable[req].error))
    /\ UNCHANGED <<limitVars, clientVars, vars, checkVars>>

\* checkRateLimit(clientIp) refuses, answering limited: 429.
ThrottleRun(h, req, limited) ==
    /\ rateLimitStore' = limited.store
    /\ Replied(h, req, <<"validateRequest", "checkRateLimit">>, Checked(limited),
               IdleExchange.ai, RateLimitedReply(CeilSeconds(limited.resetTime - now)))
    /\ UNCHANGED <<now, rateLimitRpm, decisions, clientVars, vars, checkVars>>

Throttle(h, req) ==
    /\ Arrives(h)
    /\ req.method # "OPTIONS"
    /\ ValidateTable[req].isValid
    /\ ~checkRateLimit(req.clientIp, rateLimitStore, now, rateLimitRpm).allowed
    /\ ThrottleRun(h, req, checkRateLimit(req.clientIp, rateLimitStore, now, rateLimitRpm))

\* checkRateLimit(clientIp) admits the request, answering limited, and the
\* handler calls geminiClient.generateResponse(message, sessionId), whose
\* limiter answers admitted: the call returns at once (started.settled)
\* and the handler replies 500, or it calls the provider and awaits.
AdmitStarted(h, req, limited, started) ==
    IF started.settled
    THEN Replied(h, req, <<"validateRequest", "checkRateLimit", "generateResponse">>,
                 Checked(limited), started.response, AiErrorReply(started.response))
    ELSE exchanges' = [exchanges EXCEPT ![h] =
            [IdleExchange EXCEPT
                !.pc = "generating", !.request = req, !.receivedAt = now,
                !.trail = <<"validateRequest", "checkRateLimit", "generateResponse",
                            "generateContent">>,
                !.rateLimit = Checked(limited), !.prompt = started.prompt]]

AdmitRun(h, req, limited, admitted) ==
    /\ rateLimitStore' = limited.store
    /\ requests' = admitted.log
    /\ AdmitStarted(h, req, limited, GenerateStarted(admitted, SanitizeTable[req.message]))
    /\ UNCHANGED <<now, rateLimitRpm, decisions, clientCalls, vars, checkVars>>

Admit(h, req) ==
    /\ Arrives(h)
    /\ req.method # "OPTIONS"
    /\ ValidateTable[req].isValid
    /\ checkRateLimit(req.clientIp, rateLimitStore, now, rateLimitRpm).allowed
    /\ AdmitRun(h, req, checkRateLimit(req.clientIp, rateLimitStore, now, rateLimitRpm),
                clientCheckRateLimit(requests, sessionOf(req), now, rateLimitRpm))

\* validator.validateResponse(message, aiResponse.text) has returned res:
\* the handler replies 200.
ValidatedAs(h, outcome, ai, res) ==
    exchanges' = [exchanges EXCEPT
        ![h].pc = "replied", ![h].outcome = outcome, ![h].ai = ai, ![h].validation = res,
        ![h].trail = exchanges[h].trail
                        \o (IF res.isValid THEN <<"validateResponse">>
                            ELSE <<"validateResponse", "generateErrorMessage">>),
        ![h].reply = ValidatedReply(res, exchanges[h].rateLimit)]

\* The seven checks have run on the shared patterns (run) and their
\* promises settle in the order of the array.
ValidatedRun(h, outcome, ai, run) ==
    /\ lastIndex' = run.lastIndex
    /\ ValidatedAs(h, outcome, ai,
                   Returned(PromiseAll(PromisesOf(run, 0), <<1, 2, 3, 4, 5, 6, 7>>), ai.text))

\* generateResponse has resolved with ai, Promise.race having settled as
\* outcome: the handler replies 500 when it failed, and validates its
\* text otherwise.
Answered(h, outcome, ai) ==
    /\ IF ~ai.success
       THEN /\ exchanges' = [exchanges EXCEPT ![h].pc = "replied", ![h].outcome = outcome,
                                              ![h].ai = ai, ![h].reply = AiErrorReply(ai)]
            /\ lastIndex' = lastIndex
       ELSE ValidatedRun(h, outcome, ai,
                         ChecksArray(ChatTable[exchanges[h].request.message, ai.text],
                                     validateSourceCitations(ai.text, lastIndex)))
    /\ UNCHANGED <<callVars, limitVars, clientVars, checkVars>>

\* The provider answers or fails before the timer fires.
Answer(h, outcome) ==
    /\ exchanges[h].pc = "generating"
    /\ now - exchanges[h].receivedAt <= REQUEST_TIMEOUT_MS
    /\ Answered(h, outcome, FinishTable[outcome])

\* The timer of 30 seconds fires first.
ChatTimeOut(h) ==
    /\ exchanges[h].pc = "generating"
    /\ now - exchanges[h].receivedAt >= REQUEST_TIMEOUT_MS
    /\ Answered(h, TimerFired, FinishTable[TimerFired])

ChatNext ==
    \/ Tick
    \/ \E h \in Https, req \in ChatRequests : Preflight(h, req)
    \/ \E h \in Https, req \in ChatRequests : Reject(h, req)
    \/ \E h \in Https, req \in ChatRequests : Throttle(h, req)
    \/ \E h \in Https, req \in ChatRequests : Admit(h, req)
    \/ \E h \in Https, outcome \in ChatOutcomes : Answer(h, outcome)
    \/ \E h \in Https : ChatTimeOut(h)

ChatSpec == ChatInit /\ [][ChatNext]_chatSpecVars

(***************************************************************************)
(* The properties.                                                         *)
(***************************************************************************)
\* Call c has returned.
Done(c) == pc[c] = "done"

\* One of the checks of call c failed with an internal error.
Failed(c) == \E k \in DOMAIN promises[c] : promises[c][k].status = "rejected"

\* Call c has returned and all its checks completed.
Normal(c) == Done(c) /\ ~Failed(c)

\* What the seven checks of call c returned, in the order of the array, and
\* their issue and source lists concatenated in that order.
ChecksOf(c) == [k \in 1..NumChecks |-> promises[c][k].value]

IssuesOfChecks(c) == Flatten([k \in 1..NumChecks |-> ChecksOf(c)[k].issues])

SourcesOfChecks(c) == Flatten([k \in 1..NumChecks |-> ChecksOf(c)[k].sources])

\* The issues of the list with the given severity, as indices.
WithSeverity(issues, severity) == {k \in 1..Len(issues) : issues[k].severity = severity}

\* The citation-grammar matches of a response: what the ten patterns match
\* in it when each is scanned from the start of the text.
GrammarMatches(r) == Flatten([k \in 1..NumPatterns |-> MatchAllTable[r, k, 0]])

\* C1: in every result validateResponse has returned, from the aggregation
\* or from the catch block, isValid is true exactly when confidence >= 70
\* and no issue has severity CRITICAL.
C1_ValidIffConfidentAndNoCritical ==
    \A c \in Calls :
        Done(c) =>
            (result[c].isValid <=>
                (/\ RatLeq(Int2Rat(70), result[c].confidence)
                 /\ WithSeverity(result[c].issues, "CRITICAL") = {}))

\* C1: a call returned invalid with a confidence of 70 or more, vetoed by
\* the one CRITICAL issue among its issues.
C1_VetoedByOneCritical ==
    \E c \in Calls :
        /\ Normal(c)
        /\ RatLeq(Int2Rat(70), result[c].confidence)
        /\ Cardinality(WithSeverity(result[c].issues, "CRITICAL")) = 1
        /\ ~result[c].isValid

\* C2: every check returns a score between 0 and its maxScore 10; the
\* confidence of a call whose seven checks completed is 100 times the sum of
\* their scores over 70; every returned confidence lies in [0, 100].
C2_ConfidenceIsScoreRatio ==
    \A c \in Calls :
        /\ \A k \in DOMAIN promises[c] :
              promises[c][k].status = "fulfilled" =>
                  /\ promises[c][k].value.maxScore = 10
                  /\ RatLeq(Int2Rat(0), promises[c][k].value.score)
                  /\ RatLeq(promises[c][k].value.score, Int2Rat(10))
        /\ Normal(c) =>
              result[c].confidence =
                  RatMul(RatSum([k \in 1..NumChecks |-> ChecksOf(c)[k].score]), Rat(100, 70))
        /\ Done(c) =>
              /\ RatLeq(Int2Rat(0), result[c].confidence)
              /\ RatLeq(result[c].confidence, Int2Rat(100))

\* C2: a call returned with a confidence strictly between 0 and 100, one of
\* its checks having scored strictly between 0 and 10.
C2_PartialScoreCounted ==
    \E c \in Calls :
        /\ Normal(c)
        /\ \E k \in 1..NumChecks :
              /\ RatLess(Int2Rat(0), ChecksOf(c)[k].score)
              /\ RatLess(ChecksOf(c)[k].score, Int2Rat(10))
        /\ RatLess(Int2Rat(0), result[c].confidence)
        /\ RatLess(result[c].confidence, Int2Rat(100))

\* C3: a call one of whose checks failed returns exactly the fallback:
\* isValid false, confidence 0, the input response as validatedText, no
\* sources, a single issue, CRITICAL, and no other field.
C3_FailureGivesFallback ==
    \A c \in Calls :
        (Done(c) /\ Failed(c)) =>
            /\ DOMAIN result[c] = {"isValid", "validatedText", "confidence", "issues", "sources"}
            /\ result[c].isValid = FALSE
            /\ result[c].confidence = Int2Rat(0)
            /\ result[c].validatedText = aiResponse[c]
            /\ result[c].sources = <<>>
            /\ Len(result[c].issues) = 1
            /\ result[c].issues[1].severity = "CRITICAL"

\* C3: a call returned the fallback although checks of it that completed
\* had collected sources and issues.
C3_CompletedChecksDiscarded ==
    \E c \in Calls :
        /\ Done(c)
        /\ Failed(c)
        /\ \E k \in 1..NumChecks :
              promises[c][k].status = "fulfilled" /\ promises[c][k].value.sources # <<>>
        /\ \E k \in 1..NumChecks :
              promises[c][k].status = "fulfilled" /\ promises[c][k].value.issues # <<>>
        /\ result[c].sources = <<>>

\* C4: every citation-grammar match of the response of a call is among the
\* sources the call returned, whatever calls ran before it.
C4_EveryCitationInSources ==
    \A c \in Calls :
        Normal(c) =>
            \A i \in 1..Len(GrammarMatches(aiResponse[c])) :
                \E j \in 1..Len(result[c].sources) :
                    result[c].sources[j] = GrammarMatches(aiResponse[c])[i]

\* C4: a call returned no sources for a response that holds a citation.
C4_CitationMissed ==
    \E c \in Calls :
        /\ Normal(c)
        /\ GrammarMatches(aiResponse[c]) # <<>>
        /\ result[c].sources = <<>>

\* C5: two calls with the same query and response return equal results,
\* whatever calls ran before or between them.
C5_EqualCallsEqualResults ==
    \A c, d \in Calls :
        (/\ Normal(c)
         /\ Normal(d)
         /\ userQuery[c] = userQuery[d]
         /\ aiResponse[c] = aiResponse[d]) => result[c] = result[d]

\* C5: two calls with the same query and response returned, one valid and
\* the other invalid, and the shared patterns hold a lastIndex that the
\* checks left behind.
C5_EqualCallsDiffer ==
    \E c, d \in Calls :
        /\ Normal(c)
        /\ Normal(d)
        /\ userQuery[c] = userQuery[d]
        /\ aiResponse[c] = aiResponse[d]
        /\ result[c].isValid
        /\ ~result[d].isValid

\* C6: the sources of every returned result hold no string twice, and are
\* the strings of the checks' concatenated sources in the order of their
\* first occurrence there.
C6_SourcesDeduplicated ==
    \A c \in Calls :
        /\ Done(c) =>
              \A i, j \in 1..Len(result[c].sources) :
                  i # j => result[c].sources[i] # result[c].sources[j]
        /\ Normal(c) =>
              /\ {result[c].sources[i] : i \in 1..Len(result[c].sources)}
                     = {SourcesOfChecks(c)[i] : i \in 1..Len(SourcesOfChecks(c))}
              /\ \A i, j \in 1..Len(result[c].sources) :
                    i < j =>
                        SetMin({n \in 1..Len(SourcesOfChecks(c)) :
                                    SourcesOfChecks(c)[n] = result[c].sources[i]})
                        < SetMin({n \in 1..Len(SourcesOfChecks(c)) :
                                      SourcesOfChecks(c)[n] = result[c].sources[j]})

\* C6: a call returned fewer sources than its checks collected, a citation
\* having been found twice with another one in between.
C6_RepeatedCitationDropped ==
    \E c \in Calls :
        /\ Normal(c)
        /\ Len(result[c].sources) < Len(SourcesOfChecks(c))
        /\ \E i, j, n \in 1..Len(SourcesOfChecks(c)) :
              /\ i < j
              /\ j < n
              /\ SourcesOfChecks(c)[i] = SourcesOfChecks(c)[n]
              /\ SourcesOfChecks(c)[i] # SourcesOfChecks(c)[j]

\* C7: the issues of a result are the checks' issue lists concatenated in
\* the order of the array (topic relevance, source citation, hallucination,
\* logical consistency, completeness, unsafe content, quality), whatever
\* order the checks settled in; calls whose checks returned the same give
\* the same result.
C7_IssuesInDefinitionOrder ==
    \A c \in Calls :
        Normal(c) =>
            /\ result[c].issues = IssuesOfChecks(c)
            /\ \A d \in Calls :
                  (Normal(d) /\ promises[d] = promises[c] /\ aiResponse[d] = aiResponse[c])
                      => result[d] = result[c]

\* C7: a call returned whose checks settled in the reverse of the order of
\* the array, three of them with issues.
C7_SettledInReverse ==
    \E c \in Calls :
        /\ Normal(c)
        /\ settled[c] = <<7, 6, 5, 4, 3, 2, 1>>
        /\ Cardinality({k \in 1..NumChecks : ChecksOf(c)[k].issues # <<>>}) >= 3

\* C8: a returned result that has the field suggestions is invalid: a
\* valid result has no such field.
C8_NoSuggestionsWhenValid ==
    \A c \in Calls :
        Done(c) => (result[c].isValid => "suggestions" \notin DOMAIN result[c])

\* C8: a valid result without the field suggestions and an invalid result
\* with it have been returned.
C8_ValidWithoutSuggestions ==
    /\ \E c \in Calls :
          Done(c) /\ result[c].isValid /\ "suggestions" \notin DOMAIN result[c]
    /\ \E c \in Calls :
          Done(c) /\ ~result[c].isValid /\ "suggestions" \in DOMAIN result[c]

\* C9: a call on the empty response returns confidence 0 and isValid false.
C9_EmptyResponseScoresZero ==
    \A c \in Calls :
        (Done(c) /\ aiResponse[c] = "") =>
            (result[c].confidence = Int2Rat(0) /\ ~result[c].isValid)

\* C9: a call on the empty response returned invalid with a confidence
\* above 60.
C9_EmptyResponseConfident ==
    \E c \in Calls :
        /\ Normal(c)
        /\ aiResponse[c] = ""
        /\ ~result[c].isValid
        /\ RatLess(Int2Rat(60), result[c].confidence)

\* C10: with n the number of citation-grammar matches of the response and
\* e = max(1, floor(length / 200)), the source citation check of every call
\* returns: for n = 0, score 0, a CRITICAL MISSING_SOURCE issue and no
\* sources, and the call's result is invalid; for 0 < n < e, score 10n/e
\* and a MEDIUM MISSING_SOURCE issue; for n >= e, score 10 and no CRITICAL
\* or MEDIUM MISSING_SOURCE issue.
C10_CitationScoreByCount ==
    \A c \in Calls :
        (pc[c] # "idle" /\ promises[c][2].status = "fulfilled") =>
            LET n == Len(GrammarMatches(aiResponse[c]))
                e == expectedCitations(aiResponse[c])
                check == promises[c][2].value
                raised(severity) ==
                    \E k \in 1..Len(check.issues) :
                        /\ check.issues[k].type = "MISSING_SOURCE"
                        /\ check.issues[k].severity = severity
            IN  /\ n = 0 =>
                      /\ check.score = Int2Rat(0)
                      /\ raised("CRITICAL")
                      /\ check.sources = <<>>
                      /\ Done(c) => ~result[c].isValid
                /\ (0 < n /\ n < e) =>
                      /\ check.score = Rat(10 * n, e)
                      /\ raised("MEDIUM")
                /\ n >= e =>
                      /\ check.score = Int2Rat(10)
                      /\ ~raised("CRITICAL")
                      /\ ~raised("MEDIUM")

\* C10: the citation check of a call scored 0 and raised the CRITICAL
\* issue on a response that holds as many citations as expected.
C10_CriticalDespiteCitation ==
    \E c \in Calls :
        /\ pc[c] # "idle"
        /\ promises[c][2].status = "fulfilled"
        /\ Len(GrammarMatches(aiResponse[c])) >= expectedCitations(aiResponse[c])
        /\ promises[c][2].value.score = Int2Rat(0)
        /\ WithSeverity(promises[c][2].value.issues, "CRITICAL") # {}

\* The single validation has returned; none of its checks failed.
Validated == sample # NoSample /\ stage \in {"validated", "reported"}

ValidatedNormally ==
    Validated /\ \A k \in 1..NumChecks : checked[k].status = "fulfilled"

\* The unsafe and the inappropriate patterns that match a text, by number.
UnsafeMatches(text) ==
    {k \in 1..Len(unsafePatterns) : testChain(text, unsafePatterns[k])}

GuaranteeMatches(text) ==
    {k \in 1..Len(inappropriatePatterns) : testChain(text, inappropriatePatterns[k])}

\* The issues of the list with the given type and severity, as indices.
IssuesOfKind(issues, type, severity) ==
    {k \in 1..Len(issues) : issues[k].type = type /\ issues[k].severity = severity}

\* C11: when the response matches an unsafe pattern, the unsafe-content
\* check scores 0 (also when guarantee patterns match too), raises a
\* CRITICAL UNSAFE_CONTENT issue, and the result is invalid; when it
\* matches none, the check scores max(0, 10 - 4k) and raises one HIGH
\* UNSAFE_CONTENT issue for each of the k guarantee patterns that match,
\* and no CRITICAL one.
C11_UnsafeContentScore ==
    Validated =>
        /\ checked[6].status = "fulfilled"
        /\ UnsafeMatches(sample.response) # {} =>
              /\ checked[6].value.score = Int2Rat(0)
              /\ IssuesOfKind(checked[6].value.issues, "UNSAFE_CONTENT", "CRITICAL") # {}
              /\ ~verdict.isValid
        /\ UnsafeMatches(sample.response) = {} =>
              /\ checked[6].value.score =
                     Int2Rat(Max(0, 10 - 4 * Cardinality(GuaranteeMatches(sample.response))))
              /\ Cardinality(IssuesOfKind(checked[6].value.issues, "UNSAFE_CONTENT", "HIGH"))
                     = Cardinality(GuaranteeMatches(sample.response))
              /\ Len(checked[6].value.issues) = Cardinality(GuaranteeMatches(sample.response))

\* C11: a response with an unsafe phrase and a guarantee phrase has been
\* validated: the check scored 0 and the result is invalid although its
\* confidence is 70 or more.
C11_UnsafeWithGuarantee ==
    /\ ValidatedNormally
    /\ sample.response = Phrased({1}, {2})
    /\ checked[6].value.score = Int2Rat(0)
    /\ IssuesOfKind(verdict.issues, "UNSAFE_CONTENT", "CRITICAL") # {}
    /\ IssuesOfKind(verdict.issues, "UNSAFE_CONTENT", "HIGH") # {}
    /\ RatLeq(Int2Rat(70), verdict.confidence)
    /\ ~verdict.isValid

\* The responses of the samples that offer guidance on corruption.
GuidanceTexts == {T_GUIDE, T_HOWTO, Phrased({1}, {})}

\* C12: for a query that matches an unsafe pattern and a response that
\* offers such guidance, the result is invalid, holds a CRITICAL
\* UNSAFE_CONTENT issue, and the unsafe-content check scored 0.
C12_UnsafeQueryDetected ==
    (/\ ValidatedNormally
     /\ UnsafeMatches(sample.query) # {}
     /\ sample.response \in GuidanceTexts) =>
        /\ ~verdict.isValid
        /\ IssuesOfKind(verdict.issues, "UNSAFE_CONTENT", "CRITICAL") # {}
        /\ checked[6].value.score = Int2Rat(0)

\* C12: the query and the response of the test of guidance for illegal
\* activities have been validated: the unsafe-content check scored 10 and
\* the result holds no UNSAFE_CONTENT issue.
C12_GuidanceUndetected ==
    /\ ValidatedNormally
    /\ sample = [query |-> Q_CORRUPT, response |-> T_GUIDE]
    /\ UnsafeMatches(sample.query) # {}
    /\ checked[6].value.score = Int2Rat(10)
    /\ \A k \in 1..Len(verdict.issues) : verdict.issues[k].type # "UNSAFE_CONTENT"

\* C13: generateErrorMessage returns a non-empty string for every result:
\* the template for the type of the first CRITICAL issue of the list
\* (off-topic, missing-source, unsafe-content, and the generic fallback
\* for any other type), or the consult-a-professional message when no issue
\* is CRITICAL; and the result is left as it was.
C13_MessageByFirstCritical ==
    /\ [](stage = "reported" =>
            /\ errorMessage # ""
            /\ WithSeverity(verdict.issues, "CRITICAL") = {} => errorMessage = MSG_CONSULT
            /\ WithSeverity(verdict.issues, "CRITICAL") # {} =>
                  errorMessage =
                      CASE verdict.issues[SetMin(WithSeverity(verdict.issues, "CRITICAL"))].type
                               = "TOPIC_IRRELEVANT" -> MSG_TOPIC_IRRELEVANT
                        [] verdict.issues[SetMin(WithSeverity(verdict.issues, "CRITICAL"))].type
                               = "MISSING_SOURCE" -> MSG_MISSING_SOURCE
                        [] verdict.issues[SetMin(WithSeverity(verdict.issues, "CRITICAL"))].type
                               = "UNSAFE_CONTENT" -> MSG_UNSAFE_CONTENT
                        [] OTHER -> MSG_DEFAULT)
    /\ [][stage' = "reported" => verdict' = verdict]_checkVars

\* C13: a message has been generated for the result of a validation that
\* holds CRITICAL issues of several types, UNSAFE_CONTENT among them: the
\* first one, of the topic check, decided.
C13_EarlierCriticalWins ==
    /\ stage = "reported"
    /\ sample # NoSample
    /\ Cardinality(WithSeverity(verdict.issues, "CRITICAL")) >= 2
    /\ IssuesOfKind(verdict.issues, "UNSAFE_CONTENT", "CRITICAL") # {}
    /\ verdict.issues[SetMin(WithSeverity(verdict.issues, "CRITICAL"))].type = "TOPIC_IRRELEVANT"
    /\ errorMessage = MSG_TOPIC_IRRELEVANT

\* The requests of a client address that checkRateLimit accepted at a time
\* from `from` up to, not including, `to`, as indices of decisions.
AcceptedIn(clientIp, from, to) ==
    {k \in 1..Len(decisions) :
        /\ decisions[k].clientIp = clientIp
        /\ decisions[k].allowed
        /\ from <= decisions[k].time
        /\ decisions[k].time < to}

\* C15: for every client address and every interval of 60 seconds,
\* checkRateLimit accepts at most RATE_LIMIT_RPM requests of that address;
\* the stored count never exceeds the limit and the remaining value it
\* reports is never negative.
C15_AtMostLimitPerMinute ==
    /\ \A clientIp \in ClientIps, k \in 1..Len(decisions) :
          Cardinality(AcceptedIn(clientIp, decisions[k].time, decisions[k].time + WINDOW_MS))
              <= rateLimitRpm
    /\ \A clientIp \in DOMAIN rateLimitStore : rateLimitStore[clientIp].count <= rateLimitRpm
    /\ \A k \in 1..Len(decisions) : decisions[k].remaining >= 0

\* C15: with a limit of 2, three requests of one address have been accepted
\* within 30 seconds, the first at the end of a window and the others at
\* the start of the next.
C15_BurstAcrossWindows ==
    /\ rateLimitRpm = 2
    /\ \E clientIp \in ClientIps, k \in 1..Len(decisions) :
          Cardinality(AcceptedIn(clientIp, decisions[k].time, decisions[k].time + StepMs + 1)) = 3

(***************************************************************************)
(* GeminiClient.generateResponse, under ClientSpec.                        *)
(***************************************************************************)
clientSpecVars == <<now, clientVars>>

Issued(c) == clientCalls[c].pc # "idle"

Resolved(c) == clientCalls[c].pc = "done"

HasError(r, e) == "error" \in DOMAIN r /\ r.error = e

\* The limiter answered the call with false / with true.
Refused(c) == Resolved(c) /\ HasError(clientCalls[c].response, "RATE_LIMITED")

Admitted(c) == Issued(c) /\ ~Refused(c)

\* C18: generateResponse called with an empty message, or with a message
\* of more than 1000 characters, resolves with success false and the error
\* INVALID_INPUT: such a call, once the limiter has admitted it, has
\* returned, and with that response.
C18_InvalidInputReported ==
    \A c \in ClientCalls :
        Admitted(c)
          /\ (clientCalls[c].userMessage = "" \/ Len(clientCalls[c].userMessage) > MAX_INPUT_LENGTH)
        => /\ Resolved(c)
           /\ clientCalls[c].response.success = FALSE
           /\ HasError(clientCalls[c].response, "INVALID_INPUT")

\* The message of 1001 characters was cut to 1000, sent to the provider and
\* answered: the call resolved with success true.
C18_LongInputAnswered ==
    \E c \in ClientCalls :
        /\ Len(clientCalls[c].userMessage) > MAX_INPUT_LENGTH
        /\ Resolved(c)
        /\ clientCalls[c].response.success = TRUE

\* The texts of the provider that are empty or have only whitespace.
BlankTexts == {t \in ProviderTexts : removeWhitespace(t) = ""}

\* The error a failure of the provider with the message m is reported as.
ErrorClass(m) ==
    IF includes(m, "timeout") THEN "TIMEOUT"
    ELSE IF includes(m, "quota") \/ includes(m, "limit") THEN "QUOTA_EXCEEDED"
    ELSE "API_ERROR"

\* C19: generateResponse never rejects: every call that has finished has
\* resolved with a response. When the provider call failed (the client's
\* own timer of 30 seconds included) the response has success false and
\* the error TIMEOUT, QUOTA_EXCEEDED or API_ERROR according to the message
\* of the failure; when the provider returned a text that is empty or only
\* whitespace it has success false and the error EMPTY_RESPONSE; and
\* success is true only with a non-empty text.
C19_FailuresClassified ==
    \A c \in ClientCalls :
        Resolved(c)
        => /\ "pending" \notin DOMAIN clientCalls[c].response
           /\ clientCalls[c].response.success \in BOOLEAN
           /\ clientCalls[c].outcome.kind = "error"
                => /\ clientCalls[c].response.success = FALSE
                   /\ HasError(clientCalls[c].response, ErrorClass(clientCalls[c].outcome.message))
           /\ clientCalls[c].outcome.kind = "text"
                /\ clientCalls[c].outcome.text \in BlankTexts
                => /\ clientCalls[c].response.success = FALSE
                   /\ HasError(clientCalls[c].response, "EMPTY_RESPONSE")
           /\ clientCalls[c].response.success = TRUE
                => /\ clientCalls[c].outcome.kind = "text"
                   /\ clientCalls[c].outcome.text \notin BlankTexts
                   /\ Len(clientCalls[c].response.text) > 0

\* The client's own timer fired for one call, reported as TIMEOUT; the
\* provider failed another with 'rate limit reached', reported as
\* QUOTA_EXCEEDED; and it answered a third with whitespace only.
C19_TimerAndQuotaAndEmpty ==
    /\ \E c \in ClientCalls :
          /\ Resolved(c) /\ clientCalls[c].outcome = TimerFired
          /\ now - clientCalls[c].calledAt >= REQUEST_TIMEOUT_MS
          /\ HasError(clientCalls[c].response, "TIMEOUT")
    /\ \E c \in ClientCalls :
          /\ Resolved(c) /\ clientCalls[c].outcome = [kind |-> "error", message |-> "rate limit reached"]
          /\ HasError(clientCalls[c].response, "QUOTA_EXCEEDED")
    /\ \E c \in ClientCalls :
          /\ Resolved(c) /\ clientCalls[c].outcome = [kind |-> "text", text |-> " \n"]
          /\ HasError(clientCalls[c].response, "EMPTY_RESPONSE")

\* The calls of the identifier admitted in the window of windowMs that
\* starts at the time `from`.
AdmittedInWindow(clientId, from) ==
    {c \in ClientCalls :
        /\ Admitted(c)
        /\ clientCalls[c].clientId = clientId
        /\ clientCalls[c].calledAt >= from
        /\ clientCalls[c].calledAt < from + LIMITER_WINDOW_MS}

\* The calls of the identifier issued before c and admitted less than
\* windowMs before it.
AdmittedBefore(c) ==
    {d \in 1..(c - 1) :
        /\ Admitted(d)
        /\ clientCalls[d].clientId = clientCalls[c].clientId
        /\ clientCalls[c].calledAt - clientCalls[d].calledAt < LIMITER_WINDOW_MS}

\* The step is a call of generateResponse that the limiter refuses.
RefusedNow(c) == ~Issued(c) /\ Refused(c)'

\* C20: the RateLimiter of the client. For every identifier, every window
\* of windowMs holds at most maxRequests admitted calls; a call is refused
\* exactly when maxRequests calls of its own identifier were admitted
\* within the windowMs before it, whatever the other identifiers did; a
\* refused call is not recorded and leaves the wait as it was, and a call
\* touches the record of its own identifier only; so of maxRequests + 1
\* requests that one client makes at once at least one is answered
\* RATE_LIMITED.
C20_LimiterWindow ==
    /\ [](\A c \in ClientCalls :
            Issued(c)
            => /\ Cardinality(AdmittedInWindow(clientCalls[c].clientId, clientCalls[c].calledAt))
                    <= rateLimitRpm
               /\ Refused(c) <=> Cardinality(AdmittedBefore(c)) >= rateLimitRpm
               /\ Cardinality({d \in ClientCalls :
                                 /\ Issued(d)
                                 /\ clientCalls[d].clientId = clientCalls[c].clientId
                                 /\ clientCalls[d].calledAt = clientCalls[c].calledAt})
                    > rateLimitRpm
                  => \E d \in ClientCalls :
                        /\ Refused(d)
                        /\ clientCalls[d].clientId = clientCalls[c].clientId
                        /\ clientCalls[d].calledAt = clientCalls[c].calledAt)
    /\ [][\A c \in ClientCalls :
            /\ RefusedNow(c)
               => /\ requests' = requests
                  /\ getTimeUntilReset(requests', clientCalls'[c].clientId, now)
                        = getTimeUntilReset(requests, clientCalls'[c].clientId, now)
            /\ ~Issued(c) /\ Issued(c)'
               => \A clientId \in ClientIds \ {clientCalls'[c].clientId} :
                     requestsOf(requests', clientId) = requestsOf(requests, clientId)
          ]_clientSpecVars

\* With a limit of 2, one client made three requests at once: the first two
\* were admitted and the third was refused.
C20_ThirdAtOnceRefused ==
    /\ rateLimitRpm = 2
    /\ \A c \in ClientCalls : Issued(c) /\ clientCalls[c].clientId = "anonymous"
                                        /\ clientCalls[c].calledAt = StepMs
    /\ Admitted(1) /\ Admitted(2) /\ Refused(3)

(***************************************************************************)
(* The chat handler, under ChatSpec.                                       *)
(***************************************************************************)
Answering(h) == exchanges[h].pc = "replied"

Called(h, f) == \E k \in 1..Len(exchanges[h].trail) : exchanges[h].trail[k] = f

\* The handler has the verdict of the validator for the request.
Judged(h) == Answering(h) /\ Called(h, "validateResponse")

RefusedByHandler(h) ==
    Answering(h) /\ exchanges[h].rateLimit.checked /\ ~exchanges[h].rateLimit.allowed

RefusedByClient(h) == Answering(h) /\ HasError(exchanges[h].ai, "RATE_LIMITED")

CallOrder ==
    <<"validateRequest", "checkRateLimit", "generateResponse", "generateContent",
      "validateResponse", "generateErrorMessage">>

\* The requests of valid shape.
WellFormed ==
    {req \in ChatRequests :
        /\ req.method = "POST"
        /\ req.contentType = "application/json"
        /\ removeWhitespace(req.message) # ""
        /\ Len(req.message) <= MAX_MESSAGE_LENGTH}

\* The step is the reply to request h with status 400.
Rejects(h) == ~Answering(h) /\ Answering(h)' /\ exchanges'[h].reply.status = 400

\* C17: the handler makes its calls in the order of its code; the provider
\* is called only for requests of valid shape that the per-IP limiter has
\* then admitted, and validateResponse only after generateResponse
\* returned success; a request rejected with 400 INVALID_REQUEST has
\* reached neither limiter, provider nor validator, and the step that
\* rejects it leaves the quota of both limiters and the validator as they
\* were.
C17_StepsInOrder ==
    /\ [](\A h \in Https :
            /\ exchanges[h].trail = SubSeq(CallOrder, 1, Len(exchanges[h].trail))
            /\ Called(h, "generateContent")
               => /\ exchanges[h].request \in WellFormed
                  /\ exchanges[h].rateLimit.checked /\ exchanges[h].rateLimit.allowed
            /\ Called(h, "validateResponse") => exchanges[h].ai.success = TRUE
            /\ Answering(h) /\ exchanges[h].reply.status = 400
               => /\ exchanges[h].reply.body.code = "INVALID_REQUEST"
                  /\ exchanges[h].request \notin WellFormed
                  /\ exchanges[h].trail = <<"validateRequest">>
                  /\ ~exchanges[h].rateLimit.checked)
    /\ [][\A h \in Https :
            Rejects(h) => /\ rateLimitStore' = rateLimitStore
                          /\ requests' = requests
                          /\ lastIndex' = lastIndex]_chatSpecVars

\* A request with a message of 1001 characters was rejected with 400, and
\* the next request from the same address found the whole quota: it was
\* admitted with RATE_LIMIT_RPM - 1 requests remaining, and its answer was
\* validated.
C17_RejectedThenFullQuota ==
    /\ exchanges[1].request.message = LongInput
    /\ Answering(1) /\ exchanges[1].reply.status = 400
    /\ exchanges[2].request.clientIp = exchanges[1].request.clientIp
    /\ Judged(2)
    /\ exchanges[2].rateLimit.remaining = rateLimitRpm - 1

(***************************************************************************)
(* The checks one by one.                                                  *)
(***************************************************************************)
\* The citation check of call c has returned.
Cited(c) == pc[c] # "idle" /\ promises[c][2].status = "fulfilled"

\* The issue says that the format of the citation may be incorrect.
FormatDoubted(issue, citation) ==
    /\ issue.type = "MISSING_SOURCE"
    /\ issue.severity = "LOW"
    /\ issue.message = "Citation format may be incorrect: " \o citation

\* C21: the format validation never rejects an extracted citation: whatever
\* calls came before, the citation check raises no LOW MISSING_SOURCE
\* 'citation format may be incorrect' issue for a string that matches one
\* of the citation grammars.
C21_NoGrammarMatchDoubted ==
    \A c \in Calls :
        Cited(c) =>
            \A k \in 1..Len(promises[c][2].value.issues) :
                \A i \in 1..Len(GrammarMatches(aiResponse[c])) :
                    ~FormatDoubted(promises[c][2].value.issues[k],
                                   GrammarMatches(aiResponse[c])[i])

\* The first call on the freshly loaded module validated a response that
\* cites KUHP Pasal 362 and KUHP Pasal 338, and the format of the second
\* citation of the family was doubted.
C21_SecondOfFamilyDoubted ==
    /\ Cited(1)
    /\ aiResponse[1] = R_TWICE
    /\ \E k \in 1..Len(promises[1][2].value.issues) :
          FormatDoubted(promises[1][2].value.issues[k], "KUHP Pasal 338")

\* s with every occurrence of a replaced by b (b does not hold a).
RECURSIVE replaceEvery(_, _, _)
replaceEvery(s, a, b) ==
    IF indexOf(s, a) = -1 THEN s ELSE replaceEvery(replaceFirst(s, a, b), a, b)

\* The misconceptions whose phrase, the words of the key separated by
\* spaces, the response holds in some letter case; by number.
MisconceptionsStated(text) ==
    {k \in 1..Len(KB_commonMisconceptions) :
        includes(toLowerCase(text), replaceEvery(KB_commonMisconceptions[k][1], "_", " "))}

\* The HIGH HALLUCINATION issue for the misconception numbered k.
MisconceptionIssue(issue, k) ==
    /\ issue.type = "HALLUCINATION"
    /\ issue.severity = "HIGH"
    /\ issue.message = "Potential misconception detected: " \o KB_commonMisconceptions[k][2]

\* C22: for each misconception of the knowledge base whose phrase the
\* response holds, the words separated by spaces and in any letter case,
\* the hallucination check raises one HIGH HALLUCINATION issue and deducts
\* 3 points.
C22_MisconceptionsDetected ==
    ValidatedNormally =>
        /\ \A k \in MisconceptionsStated(sample.response) :
              Cardinality({i \in 1..Len(checked[3].value.issues) :
                              MisconceptionIssue(checked[3].value.issues[i], k)}) = 1
        /\ RatLeq(checked[3].value.score,
                  Int2Rat(10 - 3 * Cardinality(MisconceptionsStated(sample.response))))

\* The response says 'Pidana Mati Dihapus', and the hallucination check
\* raised no issue and scored 10.
C22_ThreeWordKeyMissed ==
    /\ ValidatedNormally
    /\ 1 \in MisconceptionsStated(sample.response)
    /\ checked[3].value.issues = <<>>
    /\ checked[3].value.score = Int2Rat(10)

\* The citation-to-text tables of the knowledge base, all four.
AllKnowledgeEntries ==
    KB_constitutionalLaw \o KB_criminalLaw \o KB_civilLaw \o KB_administrativeLaw

\* The entries of the tables whose key the text holds verbatim while their
\* canonical text has a similarity below 0.3 with it; by number.
DivergingKeys(text, entries) ==
    {k \in 1..Len(entries) :
        /\ includes(text, entries[k][1])
        /\ RatLess(compareTwoStrings(toLowerCase(text), toLowerCase(entries[k][2])),
                   Rat(3, 10))}

\* The families of absolute statements that match the text, by number.
AbsoluteFamilies(text) ==
    {k \in 1..Len(absolutePatterns) : regexExec(text, absolutePatterns[k], 0) # NoMatch}

\* C23: the hallucination check returns max(0, 10 - 3m - 2k - a), where m
\* is the number of misconceptions it found, k the number of keys of the
\* four citation-to-text tables of the knowledge base that the response
\* holds verbatim with a canonical text of similarity < 0.3, and a the
\* number of families of absolute statements that match; its issues are
\* HALLUCINATION issues, one HIGH, MEDIUM and LOW per item counted.
C23_HallucinationScore ==
    ValidatedNormally =>
        /\ \A i \in 1..Len(checked[3].value.issues) :
              checked[3].value.issues[i].type = "HALLUCINATION"
        /\ Cardinality(WithSeverity(checked[3].value.issues, "MEDIUM"))
              = Cardinality(DivergingKeys(sample.response, AllKnowledgeEntries))
        /\ Cardinality(WithSeverity(checked[3].value.issues, "LOW"))
              = Cardinality(AbsoluteFamilies(sample.response))
        /\ checked[3].value.score
              = Int2Rat(Max(0, 10 - 3 * Cardinality(WithSeverity(checked[3].value.issues, "HIGH"))
                                  - 2 * Cardinality(DivergingKeys(sample.response, AllKnowledgeEntries))
                                  - Cardinality(AbsoluteFamilies(sample.response))))

\* The response names UU No. 30 Tahun 2014, a key of the administrative
\* table, and is unlike its canonical text; the check raised no issue and
\* scored 10.
C23_AdministrativeKeyUnchecked ==
    /\ ValidatedNormally
    /\ DivergingKeys(sample.response, KB_administrativeLaw) = {1}
    /\ checked[3].value.issues = <<>>
    /\ checked[3].value.score = Int2Rat(10)

\* The positive and the negative keywords found in the lower-cased text
\* 'query response' of the sample.
KeywordsFound(keywords) ==
    {k \in 1..Len(keywords) :
        includes(toLowerCase(sample.query \o " " \o sample.response), keywords[k])}

TopicScore ==
    Max(0, Min(10, Cardinality(KeywordsFound(LEGAL_KEYWORDS_positive))
                      - 2 * Cardinality(KeywordsFound(LEGAL_KEYWORDS_negative))))

ContradictionIssue(issue, k) ==
    /\ issue.type = "INCONSISTENCY"
    /\ issue.severity = "HIGH"
    /\ issue.message = "Potential contradiction found between \"" \o contradictoryPairs[k][1]
                           \o "\" and \"" \o contradictoryPairs[k][2] \o "\""

\* Both members of the pair occur in the lower-cased text and their first
\* occurrences are at the given distance.
FirstOccurrencesApart(text, k, d) ==
    /\ indexOf(toLowerCase(text), contradictoryPairs[k][1]) # -1
    /\ indexOf(toLowerCase(text), contradictoryPairs[k][2]) # -1
    /\ \/ indexOf(toLowerCase(text), contradictoryPairs[k][1])
             - indexOf(toLowerCase(text), contradictoryPairs[k][2]) = d
       \/ indexOf(toLowerCase(text), contradictoryPairs[k][2])
             - indexOf(toLowerCase(text), contradictoryPairs[k][1]) = d

NegatedOnly(text, k) ==
    /\ indexOf(toLowerCase(text), contradictoryPairs[k][2]) # -1
    /\ indexOf(toLowerCase(text), contradictoryPairs[k][1])
          = indexOf(toLowerCase(text), contradictoryPairs[k][2])
               + Len(contradictoryPairs[k][2]) - Len(contradictoryPairs[k][1])

\* C29: in the pairs wajib/tidak wajib, harus/tidak harus, boleh/tidak
\* boleh and legal/ilegal the negated member ends with the positive one,
\* so a response whose first 'positive' term is the one inside the negated
\* term has both members at a distance of 6 (1 for ilegal), and the
\* consistency check flags the pair with a HIGH INCONSISTENCY issue and
\* deducts 3 points.
C29_NegationAloneFlagged ==
    ValidatedNormally =>
        \A k \in 2..Len(contradictoryPairs) :
            NegatedOnly(sample.response, k)
            => /\ FirstOccurrencesApart(sample.response, k, IF k = 5 THEN 1 ELSE 6)
               /\ \E i \in 1..Len(checked[4].value.issues) :
                     ContradictionIssue(checked[4].value.issues[i], k)
               /\ RatLeq(checked[4].value.score, Int2Rat(7))

\* 'Saksi tidak wajib hadir menurut KUHP Pasal 1.' makes a single
\* statement and was flagged as a contradiction between wajib and tidak
\* wajib, the check scoring 7.
C29_SingleStatementFlagged ==
    /\ ValidatedNormally
    /\ sample.response = "Saksi tidak wajib hadir menurut KUHP Pasal 1."
    /\ NegatedOnly(sample.response, 2)
    /\ Len(checked[4].value.issues) = 1
    /\ ContradictionIssue(checked[4].value.issues[1], 2)
    /\ checked[4].value.score = Int2Rat(7)

\* P, B and D of the completeness check for a query and a response.
MissingSteps(query, response) ==
    /\ includes(toLowerCase(query), "cara") \/ includes(toLowerCase(query), "prosedur")
    /\ ~hasSteps(response)

TooBrief(query, response) == Len(query) > 50 /\ Len(response) < 100

MissingDefinition(query, response) ==
    /\ includes(toLowerCase(query), "apa itu") \/ includes(toLowerCase(query), "definisi")
    /\ \A w \in {"adalah", "yaitu", "merupakan"} : ~includes(toLowerCase(response), w)

\* The severities of the issues of the completeness check, in order.
CompletenessSeverities(query, response) ==
    (IF MissingSteps(query, response) THEN <<"MEDIUM">> ELSE <<>>)
        \o (IF TooBrief(query, response) THEN <<"MEDIUM">> ELSE <<>>)
        \o (IF MissingDefinition(query, response) THEN <<"LOW">> ELSE <<>>)

\* C26: the completeness check scores 10 - 3*P - 2*B - D, between 4 and
\* 10, and emits a MEDIUM INCOMPLETE issue for P (a procedural query whose
\* response shows no step marker), a MEDIUM one for B (a query longer than
\* 50 with a response shorter than 100) and a LOW one for D (a definition
\* query whose response has none of 'adalah', 'yaitu', 'merupakan'), in
\* that order, and no other issue.
C26_CompletenessScore ==
    ValidatedNormally =>
        /\ checked[5].value.score
              = Int2Rat(10 - (IF MissingSteps(sample.query, sample.response) THEN 3 ELSE 0)
                           - (IF TooBrief(sample.query, sample.response) THEN 2 ELSE 0)
                           - (IF MissingDefinition(sample.query, sample.response) THEN 1 ELSE 0))
        /\ RatLeq(Int2Rat(4), checked[5].value.score)
        /\ RatLeq(checked[5].value.score, Int2Rat(10))
        /\ [k \in 1..Len(checked[5].value.issues) |-> checked[5].value.issues[k].severity]
              = CompletenessSeverities(sample.query, sample.response)
        /\ \A k \in 1..Len(checked[5].value.issues) :
              checked[5].value.issues[k].type = "INCOMPLETE"
        /\ checked[5].value.sources = <<>>

\* A query that asks for a procedure and a definition in 69 characters got
\* a response of 36: the check scored 4 with the three issues in order.
C26_AllThreeMissing ==
    /\ ValidatedNormally
    /\ MissingSteps(sample.query, sample.response)
    /\ TooBrief(sample.query, sample.response)
    /\ MissingDefinition(sample.query, sample.response)
    /\ checked[5].value.score = Int2Rat(4)
    /\ Len(checked[5].value.issues) = 3
    /\ checked[5].value.issues[1].message
          = "Procedural query should include step-by-step guidance"
    /\ checked[5].value.issues[2].message
          = "Response appears too brief for the complexity of the query"
    /\ checked[5].value.issues[3].message
          = "Definition query should include clear definition"

\* The pairs of distinct sentences of a list that are more than 0.8 similar.
SimilarAmong(sentences) ==
    {p \in (1..Len(sentences)) \X (1..Len(sentences)) :
        /\ p[1] < p[2]
        /\ RatLess(Rat(8, 10), compareTwoStrings(sentences[p[1]], sentences[p[2]]))}

\* The number of such pairs among the sentences of the text, as the
\* quality check splits it.
SimilarPairs(text) == Cardinality(SimilarAmong(sentencesOf(toLowerCase(text), 5)))

\* The words of a list that contain a formal term.
FormalAmong(words) ==
    {k \in 1..Len(words) : \E f \in 1..Len(formalWords) : includes(words[k], formalWords[f])}

\* Fewer than 5% of the words of a list contain a formal term.
FewFormal(words) == 20 * Cardinality(FormalAmong(words)) < Len(words)

\* Fewer than 5% of the whitespace-separated words of the text do.
Informal(text) == FewFormal(SplitRuns(toLowerCase(text), Whitespace))

\* A sentence: text that is not blank, closed by its only terminator.
IsSentence(u) ==
    /\ Len(u) >= 2
    /\ Ch(u, Len(u)) \in SentenceEnds
    /\ \A i \in 1..(Len(u) - 1) : Ch(u, i) \notin SentenceEnds
    /\ trim(SubSeq(u, 1, Len(u) - 1)) # ""

\* The text is one sentence three times, with or without a space between.
SentenceThrice(text) ==
    \E n \in 2..Len(text) :
        /\ IsSentence(SubSeq(text, 1, n))
        /\ text \in {SubSeq(text, 1, n) \o SubSeq(text, 1, n) \o SubSeq(text, 1, n),
                     SubSeq(text, 1, n) \o " " \o SubSeq(text, 1, n) \o " " \o SubSeq(text, 1, n)}

\* What the quality check should find in each response of the samples:
\* too short, repetitive, informal.
QualityFindings ==
    [t \in {x.response : x \in Samples} |->
        [short |-> Len(t) < 50, pairs |-> SimilarPairs(t), informal |-> Informal(t),
         thrice |-> SentenceThrice(t)]]

\* The severities of the issues of the quality check, in order.
QualitySeverities(f) ==
    (IF f.short THEN <<"MEDIUM">> ELSE <<>>)
        \o (IF f.pairs > 1 THEN <<"LOW">> ELSE <<>>)
        \o (IF f.informal THEN <<"LOW">> ELSE <<>>)

OwnSuggestions(issues) ==
    Pick([k \in 1..Len(issues) |-> issues[k].suggestion],
         {k \in 1..Len(issues) : \A j \in 1..(k - 1) : issues[j].suggestion # issues[k].suggestion})

\* The generic suggestion for an issue type, if an issue of the type is
\* among the issues.
GenericSuggestion(issues, type, suggestion) ==
    IF \E k \in 1..Len(issues) : issues[k].type = type THEN <<suggestion>> ELSE <<>>

GenericSuggestions(issues) ==
    GenericSuggestion(issues, "MISSING_SOURCE",
                      "Include specific references to Indonesian laws with article numbers")
        \o GenericSuggestion(issues, "TOPIC_IRRELEVANT",
                             "Focus strictly on Indonesian legal topics and regulations")
        \o GenericSuggestion(issues, "INCOMPLETE",
                             "Provide more comprehensive coverage of the legal topic")

\* C28: the suggestions of an invalid result of the aggregation are the
\* distinct suggestions of its issues in issue order, followed by a
\* generic suggestion for each of the types MISSING_SOURCE,
\* TOPIC_IRRELEVANT and INCOMPLETE present among the issues, whatever
\* their severity, and no string is repeated.
C28_SuggestionsOfInvalid ==
    (ValidatedNormally /\ ~verdict.isValid) =>
        /\ verdict.suggestions = OwnSuggestions(verdict.issues) \o GenericSuggestions(verdict.issues)
        /\ \A i, j \in 1..Len(verdict.suggestions) :
              verdict.suggestions[i] = verdict.suggestions[j] => i = j

\* An invalid result with two issues of the same suggestion and issues of
\* the types MISSING_SOURCE and INCOMPLETE: fewer suggestions of its own
\* than issues, then the two generic ones.
C28_SharedAndGeneric ==
    /\ ValidatedNormally
    /\ ~verdict.isValid
    /\ Len(OwnSuggestions(verdict.issues)) < Len(verdict.issues)
    /\ Len(GenericSuggestions(verdict.issues)) >= 2
    /\ Len(verdict.suggestions)
          = Len(OwnSuggestions(verdict.issues)) + Len(GenericSuggestions(verdict.issues))
    /\ verdict.suggestions[Len(verdict.suggestions)]
          = "Provide more comprehensive coverage of the legal topic"

\* C30: every result of validateResponse that is not valid has at least
\* one issue, a confidence below 70 not arising unless a check emitted an
\* issue, and when it comes from the aggregation it has suggestions, at
\* least one.
C30_InvalidHasReason ==
    (Validated /\ ~verdict.isValid) =>
        /\ verdict.issues # <<>>
        /\ ValidatedNormally =>
              /\ "suggestions" \in DOMAIN verdict
              /\ verdict.suggestions # <<>>

\* A result of the aggregation without a critical issue and with a
\* confidence below 70: it is not valid and has issues and suggestions.
C30_InvalidByConfidence ==
    /\ ValidatedNormally
    /\ WithSeverity(verdict.issues, "CRITICAL") = {}
    /\ ~RatLeq(Int2Rat(VALID_CONFIDENCE), verdict.confidence)
    /\ ~verdict.isValid
    /\ verdict.issues # <<>>
    /\ verdict.suggestions # <<>>

====
